---------------------------- MODULE Spec2Model ----------------------------
(***************************************************************************)
(* Suitability scoring and area analysis engine of H2 Optimize.            *)
(*                                                                         *)
(* Numbers.  JavaScript doubles are modelled in fixed point:               *)
(*   angles in degrees      : milli-degrees            (1 = 0.001 deg)     *)
(*   distances in km        : centi-km                 (1 = 0.01 km)       *)
(*   scores before rounding : 1/10000 point            (1 = 0.0001)        *)
(*   reported scores        : centi-points             (1 = 0.01)          *)
(*   values of sin/cos/exp  : 1/1000000                (1 = 0.000001)      *)
(*   Math.random()          : 1/1000                   (u = 0 .. 999)      *)
(* Math.round(x * 100) / 100 becomes a rounding to centi-units.            *)
(***************************************************************************)
EXTENDS Integers, Sequences, FiniteSets, TLC

E3 == 10 * 100
E6 == E3 * E3

Abs(x) == IF x < 0 THEN 0 - x ELSE x
Sgn(x) == IF x < 0 THEN 0 - 1 ELSE 1
Max2(a, b) == IF a >= b THEN a ELSE b
Min2(a, b) == IF a <= b THEN a ELSE b

\* floor(a * b / 10^6) for a, b >= 0, without leaving 32-bit integers
MulNat(a, b) ==
  LET a1 == a \div E3
      a0 == a % E3
      b1 == b \div E3
      b0 == b % E3
  IN  a1 * b1 + (a1 * b0 + a0 * b1 + (a0 * b0) \div E3) \div E3

\* product of two fixed-point values (scale 10^6), truncated toward zero
MulE6(a, b) == Sgn(a) * Sgn(b) * MulNat(Abs(a), Abs(b))

\* Math.round(x / unit): nearest integer, halves towards +infinity
RoundDiv(x, unit) == (2 * x + unit) \div (2 * unit)

\* Math.PI in 10^-6
PiE6 == 3141593

\* toRad: milli-degrees -> radians (10^-6); Math.PI / 180 = 0.017453293
toRad(mdeg) == Sgn(mdeg) * MulNat(Abs(mdeg), 17453293)

RECURSIVE SinSeries(_, _, _, _)
\* Taylor series of sin: term is the k-th term x^(2k+1)/(2k+1)! with sign
SinSeries(x2, term, k, acc) ==
  IF term = 0 \/ k > 12 THEN acc
  ELSE LET next == (0 - MulE6(term, x2)) \div ((2 * k + 2) * (2 * k + 3))
       IN  SinSeries(x2, next, k + 1, acc + term)

\* Math.sin for |x| <= pi (radians, 10^-6)
Sin(x) ==
  LET ax == Abs(x)
      r  == IF 2 * ax > PiE6 THEN PiE6 - ax ELSE ax
  IN  Sgn(x) * SinSeries(MulE6(r, r), r, 0, 0)

\* Math.cos for |x| <= 3*pi/2 (radians, 10^-6)
Cos(x) == Sin(PiE6 \div 2 - Abs(x))

RECURSIVE SqrtIter(_, _, _)
SqrtIter(n, lo, hi) ==
  IF hi - lo <= 1 THEN lo
  ELSE LET mid == (lo + hi) \div 2
       IN  IF mid * mid <= n THEN SqrtIter(n, mid, hi) ELSE SqrtIter(n, lo, mid)

\* floor(Math.sqrt(n)) for 0 <= n < 2^31
ISqrt(n) == SqrtIter(n, 0, 46341)

\* Math.sqrt of a fixed-point value v in [0, 10^6] (scale 10^6): one Newton
\* step from the integer root
SqrtE6(v) ==
  LET r == ISqrt(v)
  IN  IF r = 0 THEN 0 ELSE (r * E3 + (v * E3) \div r) \div 2

RECURSIVE AsinSeries(_, _, _, _)
\* Taylor series of asin: t(k+1) = t(k) * r^2 * (2k+1)^2 / ((2k+2)(2k+3))
AsinSeries(r2, term, k, acc) ==
  IF term = 0 \/ k > 40 THEN acc
  ELSE LET next == (MulE6(term, r2) * (2 * k + 1) * (2 * k + 1))
                     \div ((2 * k + 2) * (2 * k + 3))
       IN  AsinSeries(r2, next, k + 1, acc + term)

\* Math.atan2(Math.sqrt(a), Math.sqrt(1 - a)) = asin(sqrt(a)); r = sqrt(a) in
\* [0, 10^6]
Asin(r) ==
  LET r2 == MulE6(r, r)
  IN  IF r2 <= 520000 THEN AsinSeries(r2, r, 0, 0)
      ELSE LET c  == SqrtE6(Max2(0, E6 - r2))
           IN  PiE6 \div 2 - AsinSeries(MulE6(c, c), c, 0, 0)

\* sqrt(x^2 + q * y^2) for x, y in [0, 10^6] and a factor q in [0, 10^6]
\* (scale 10^6); the operands are scaled down by k so that the squares fit
Hypot(x, y, q) ==
  LET k  == Max2(x, y) \div 30000 + 1
      xs == x \div k
      ys == y \div k
  IN  Min2(E6, k * ISqrt(xs * xs + MulNat(q, ys * ys)))

\* half of an angle, truncated toward zero
Half(x) == Sgn(x) * (Abs(x) \div 2)

\* Earth's radius, km
EarthRadiusKm == 6371

\* units of the finer fixed point in which sines are computed before rounding
E4 == 10 * E3
E8 == E4 * E4

\* x / unit rounded to the nearest integer, for x >= 0
Nearest(x, unit) == (x + unit \div 2) \div unit

\* a * b / 10^8 rounded to nearest, for a, b in [0, 3.2 * 10^8]
Mul8(a, b) ==
  LET a1 == a \div E4
      a0 == a % E4
      b1 == b \div E4
      b0 == b % E4
  IN  a1 * b1 + (a1 * b0 + a0 * b1 + (a0 * b0 + E8 \div 2) \div E4) \div E4

\* |toRad(mdeg)| in 10^-8 rad: Math.PI / 180 = 0.017453292519943
toRad8(mdeg) ==
  Abs(mdeg) * 1745 + Nearest(Abs(mdeg) * 3292 + Nearest(Abs(mdeg) * 5199, E4), E4)

RECURSIVE SinSeries8(_, _, _, _, _)
\* Taylor series of sin in 10^-8, every term rounded to nearest
SinSeries8(x2, term, k, pos, neg) ==
  IF term = 0 \/ k > 14 THEN pos - neg
  ELSE LET next == Nearest(Mul8(term, x2), (2 * k + 2) * (2 * k + 3))
       IN  IF k % 2 = 0 THEN SinSeries8(x2, next, k + 1, pos + term, neg)
           ELSE SinSeries8(x2, next, k + 1, pos, neg + term)

\* Math.PI in 10^-8
PiE8 == 314159265

\* Math.sin(x) rounded to the nearest 10^-6, for x in [0, pi] (10^-8 rad)
SinNearest(x) ==
  LET r == IF 2 * x > PiE8 THEN Max2(0, PiE8 - x) ELSE x
  IN  Nearest(SinSeries8(Mul8(r, r), r, 0, 0, 0), 100)

\* Math.cos(x) rounded to the nearest 10^-6, for x in [0, pi/2] (10^-8 rad)
CosNearest(x) == SinNearest(Abs(PiE8 \div 2 - x))

\* a * b rounded to the nearest 10^-6, for a, b in [0, 10^6]
MulRound(a, b) ==
  LET a1 == a \div E3
      a0 == a % E3
      b1 == b \div E3
      b0 == b % E3
  IN  a1 * b1 + ((a1 * b0 + a0 * b1) * E3 + a0 * b0 + E6 \div 2) \div E6

\* the haversine term a as the expression rounds it: every sine, cosine and
\* product is rounded to nearest (here to 10^-6) and the sum is not clamped,
\* so it can come out one unit above 1.  (The unit of a double is 2^-52;
\* with the unit of 10^-6 used here the same happens a few km around the
\* antipode as well.)
HaversineA(lat1, lng1, lat2, lng2) ==
  LET sinLat == SinNearest(toRad8(lat2 - lat1) \div 2)
      sinLng == SinNearest(toRad8(lng2 - lng1) \div 2)
      cos1   == CosNearest(toRad8(lat1))
      cos2   == CosNearest(toRad8(lat2))
  IN  MulRound(sinLat, sinLat)
        + MulRound(MulRound(MulRound(cos1, cos2), sinLng), sinLng)

\* NaN: Math.sqrt of a negative number, and everything computed from it; no
\* distance is negative, and every comparison with NaN is false
NaN == 0 - 2

(***************************************************************************)
(* calculateDistance: haversine distance between two points (milli-        *)
(* degrees), in centi-km, i.e. rounded to 2 decimals.                      *)
(***************************************************************************)
calculateDistance(lat1, lng1, lat2, lng2) ==
  LET dLat  == toRad(lat2 - lat1)
      dLng  == toRad(lng2 - lng1)
      s1    == Abs(Sin(Half(dLat)))
      s2    == Abs(Sin(Half(dLng)))
      cc    == Max2(0, MulE6(Cos(toRad(lat1)), Cos(toRad(lat2))))
      sqrtA == Hypot(s1, s2, cc)
      c     == 2 * Asin(sqrtA)
      \* R * c in 10^-4 km
      distance == MulNat(c, EarthRadiusKm * 10000)
  IN  \* Math.sqrt(1 - a) is NaN when a > 1; rounding can only lift a above 1
      \* when the points are all but antipodal
      IF sqrtA >= E6 - E3 /\ HaversineA(lat1, lng1, lat2, lng2) > E6 THEN NaN
      ELSE RoundDiv(distance, 100)

RECURSIVE ExpSeries(_, _, _, _)
\* Taylor series of exp(-f): t(j+1) = -t(j) * f / (j+1)
ExpSeries(f, term, j, acc) ==
  IF term = 0 \/ j > 30 THEN acc
  ELSE ExpSeries(f, (0 - MulE6(term, f)) \div (j + 1), j + 1, acc + term)

RECURSIVE ExpInt(_)
\* exp(-k) for a natural k; exp(-1) = 0.367879
ExpInt(k) == IF k = 0 THEN E6 ELSE MulE6(ExpInt(k - 1), 367879)

\* Math.exp(-x) for x >= 0 (scale 10^6 in and out)
ExpNeg(x) ==
  LET k == x \div E6
      f == x % E6
  IN  IF k >= 16 THEN 0
      ELSE Max2(0, MulE6(ExpInt(k), ExpSeries(f, E6, 0, 0)))

InBox(lat, lng, latLo, latHi, lngLo, lngHi) ==
  lat >= latLo /\ lat <= latHi /\ lng >= lngLo /\ lng <= lngHi

\* mutant of RawPotential: the region checks are chained with else, so the
\* first matching box wins
RawPotentialFirstMatch(lat, lng, u) ==
  (IF InBox(lat, lng, 28000, 29000, 76500, 77500) THEN 1850
   ELSE IF InBox(lat, lng, 20000, 24500, 68000, 74500) THEN 1900
   ELSE IF InBox(lat, lng, 24000, 30000, 69000, 78000) THEN 1950
   ELSE IF InBox(lat, lng, 27500, 30500, 74500, 77500) THEN 1870
   ELSE 1750) * E3
  + (u * 150 - 75000)
  + (Cos(toRad(Abs(lat))) * 30) \div E3

\* the region base and the two variable terms of generateRenewablePotential, in 1/1000
RawPotential(lat, lng, u) ==
  LET b0 == 1750
      b1 == IF InBox(lat, lng, 28000, 29000, 76500, 77500) THEN 1850 ELSE b0
      b2 == IF InBox(lat, lng, 20000, 24500, 68000, 74500) THEN 1900 ELSE b1
      b3 == IF InBox(lat, lng, 24000, 30000, 69000, 78000) THEN 1950 ELSE b2
      basePotential == IF InBox(lat, lng, 27500, 30500, 74500, 77500) THEN 1870 ELSE b3
      \* Math.random() * 150 - 75, in 1/1000
      randomFactor == u * 150 - 75000
      \* Math.cos(toRad(Math.abs(lat))) * 30, in 1/1000
      latitudeFactor == (Cos(toRad(Abs(lat))) * 30) \div E3
  IN  basePotential * E3 + randomFactor + latitudeFactor

\* mutant of generateRenewablePotential: the result is not clamped
UnclampedRenewablePotential(lat, lng, u) == RoundDiv(RawPotential(lat, lng, u), E3)

(***************************************************************************)
(* generateRenewablePotential(lat, lng) with the value u of Math.random(): *)
(* kWh/m2/year, an integer.                                                *)
(***************************************************************************)
generateRenewablePotential(lat, lng, u) ==
  Max2(1600, Min2(2000, RoundDiv(RawPotential(lat, lng, u), E3)))

\* the reference grid points of generateGridDistance, <<lat, lng>>
mockGridPoints ==
  << <<28704, 77102>>, <<28614, 77209>>, <<28535, 77391>>, <<28459, 77027>>,
     <<28984, 77706>>, <<29149, 77046>>, <<23022, 72571>>, <<19076, 72878>>,
     <<13083, 80271>>, <<17385, 78487>>, <<22573, 88364>>, <<18520, 73857>>,
     <<12972, 77595>>, <<22307, 72126>>, <<21170, 72831>> >>

\* if (distance < minDistance) minDistance = distance; -1 stands for Infinity
KeepMin(m, distance) == IF distance # NaN /\ (m < 0 \/ distance < m) THEN distance ELSE m

RECURSIVE NearestGrid(_, _, _, _)
\* the forEach of generateGridDistance: k is the next index, m the running
\* minimum
NearestGrid(lat, lng, k, m) ==
  IF k > Len(mockGridPoints) THEN m
  ELSE NearestGrid(lat, lng, k + 1,
         KeepMin(m, calculateDistance(lat, lng,
                                      mockGridPoints[k][1], mockGridPoints[k][2])))

(***************************************************************************)
(* generateGridDistance(lat, lng) with the value u of Math.random():       *)
(* centi-km.  Math.random() * 10 km is u centi-km.                         *)
(***************************************************************************)
generateGridDistance(lat, lng, u) ==
  LET randomFactor == u
  IN  NearestGrid(lat, lng, 1, 0 - 1) + randomFactor

(***************************************************************************)
(* generateWindSpeed(lat, lng) with the value u of Math.random(): tenths   *)
(* of m/s.                                                                 *)
(***************************************************************************)
generateWindSpeed(lat, lng, u) ==
  LET w0 == IF InBox(lat, lng, 28000, 29500, 76500, 78000) THEN 72000 ELSE 65000
      coastal == IF Abs(lat) < 20000 /\ (lng < 75000 \/ lng > 80000) THEN 25000 ELSE 0
      altitude == IF lat > 30000 THEN 18000 ELSE 0
      desert == IF InBox(lat, lng, 24000, 30000, 69000, 78000) THEN 12000 ELSE 0
      baseWindSpeed == w0 + coastal + altitude + desert
      \* (Math.random() - 0.5) * 2.5, in 1/10000
      randomFactor == (u - 500) * 25
  IN  Max2(40, Min2(120, RoundDiv(baseWindSpeed + randomFactor, E3)))

\* the major cities of generateInfrastructureAccess, <<lat, lng, score in 1/10000>>
majorCities ==
  << <<19076, 72878, 85000>>, <<13083, 80271, 80000>>, <<12972, 77595, 80000>>,
     <<23022, 72571, 78000>>, <<22573, 88364, 75000>> >>

\* if (distance < 50) baseScore = Math.max(baseScore, city.score - (distance / 50) * 2)
NearCity(b, cityScore, distance) ==
  IF distance # NaN /\ distance < 5000 THEN Max2(b, cityScore - distance * 4) ELSE b

RECURSIVE CityScore(_, _, _, _)
\* the loop over majorCities: k is the next index, b the running baseScore
CityScore(lat, lng, k, b) ==
  IF k > Len(majorCities) THEN b
  ELSE CityScore(lat, lng, k + 1,
         NearCity(b, majorCities[k][3],
                  calculateDistance(lat, lng, majorCities[k][1], majorCities[k][2])))

\* mutant of generateInfrastructureAccess: the bonuses are added after the
\* clamp to 1..10
generateInfrastructureAccessLateBonus(lat, lng, u) ==
  RoundDiv(Max2(10000, Min2(100000, CityScore(lat, lng, 1,
                  IF InBox(lat, lng, 28000, 29500, 76500, 78000) THEN 85000 ELSE 60000)))
           + (IF InBox(lat, lng, 27000, 30000, 76000, 78500) THEN 10000 ELSE 0)
           - (IF Abs(lat) > 35000 \/ Abs(lng) > 85000 \/ Abs(lng) < 68000
              THEN 25000 ELSE 0)
           + (u - 500) * 15,
           E3)

(***************************************************************************)
(* generateInfrastructureAccess(lat, lng) with the value u of              *)
(* Math.random(): tenths of a point.                                       *)
(***************************************************************************)
generateInfrastructureAccess(lat, lng, u) ==
  LET s0 == IF InBox(lat, lng, 28000, 29500, 76500, 78000) THEN 85000 ELSE 60000
      corridor == IF InBox(lat, lng, 27000, 30000, 76000, 78500) THEN 10000 ELSE 0
      remote == IF Abs(lat) > 35000 \/ Abs(lng) > 85000 \/ Abs(lng) < 68000
                THEN 25000 ELSE 0
      baseScore == CityScore(lat, lng, 1, s0) + corridor - remote
      \* (Math.random() - 0.5) * 1.5, in 1/10000
      randomFactor == (u - 500) * 15
      finalScore == Max2(10000, Min2(100000, baseScore + randomFactor))
  IN  RoundDiv(finalScore, E3)

(***************************************************************************)
(* calculateSuitabilityScore(lat, lng, distanceToDemand): the function     *)
(* declares three parameters, so a fourth argument of a call is dropped;   *)
(* extra is that argument.  us = <<u1, u2, u3, u4>> are the values of the  *)
(* four Math.random() calls, in call order.  distanceToDemand is in        *)
(* centi-km.  Unrounded scores are in 1/10000 point, reported ones in      *)
(* centi-points.                                                           *)
(***************************************************************************)
\* mutant of ScoreObject: the total leaves out the grid score
ScoreObjectNoGrid(renewablePotential, distanceToDemand, distanceToGrid, windSpeed, infrastructureAccess) ==
  LET renewableScore == renewablePotential * 200
      demandScore == Max2(0, (30 * ExpNeg(distanceToDemand * 100)) \div 100)
      gridScore == Max2(0, (30 * ExpNeg((distanceToGrid * 200) \div 3)) \div 100)
      totalScore == renewableScore + demandScore
  IN  [ score |-> RoundDiv(totalScore, 100),
        renewablePotential |-> renewablePotential,
        distanceToDemand |-> distanceToDemand,
        distanceToGrid |-> distanceToGrid,
        renewableScore |-> RoundDiv(renewableScore, 100),
        demandScore |-> RoundDiv(demandScore, 100),
        gridScore |-> RoundDiv(gridScore, 100),
        windSpeed |-> windSpeed * 10,
        solarIrradiance |-> renewablePotential * 100,
        infrastructureAccess |-> infrastructureAccess * 10 ]

\* the score object built from the four generated factors
ScoreObject(renewablePotential, distanceToDemand, distanceToGrid, windSpeed, infrastructureAccess) ==
  LET \* (renewablePotential / 2000) * 40
      renewableScore == renewablePotential * 200
      \* Math.max(0, 30 * Math.exp(-distanceToDemand / 100))
      demandScore == Max2(0, (30 * ExpNeg(distanceToDemand * 100)) \div 100)
      \* Math.max(0, 30 * Math.exp(-distanceToGrid / 150))
      gridScore == Max2(0, (30 * ExpNeg((distanceToGrid * 200) \div 3)) \div 100)
      totalScore == renewableScore + demandScore + gridScore
  IN  [ score |-> RoundDiv(totalScore, 100),
        renewablePotential |-> renewablePotential,
        distanceToDemand |-> distanceToDemand,
        distanceToGrid |-> distanceToGrid,
        renewableScore |-> RoundDiv(renewableScore, 100),
        demandScore |-> RoundDiv(demandScore, 100),
        gridScore |-> RoundDiv(gridScore, 100),
        windSpeed |-> windSpeed * 10,
        solarIrradiance |-> renewablePotential * 100,
        infrastructureAccess |-> infrastructureAccess * 10 ]

calculateSuitabilityScore(lat, lng, distanceToDemand, extra, us) ==
  ScoreObject(generateRenewablePotential(lat, lng, us[1]),
              distanceToDemand,
              generateGridDistance(lat, lng, us[2]),
              generateWindSpeed(lat, lng, us[3]),
              generateInfrastructureAccess(lat, lng, us[4]))

\* mutant of getScoreInterpretation: the band edges are excluded
getScoreInterpretationStrict(score) ==
  IF score > 8000 THEN "Excellent"
  ELSE IF score > 6000 THEN "Good"
  ELSE IF score > 4000 THEN "Fair"
  ELSE IF score > 2000 THEN "Poor"
  ELSE "Very Poor"

\* getScoreInterpretation(score): the level of a score in centi-points
getScoreInterpretation(score) ==
  IF score >= 8000 THEN "Excellent"
  ELSE IF score >= 6000 THEN "Good"
  ELSE IF score >= 4000 THEN "Fair"
  ELSE IF score >= 2000 THEN "Poor"
  ELSE "Very Poor"

(***************************************************************************)
(* Regulatory zones.  A zone is a record                                   *)
(*   [name, type, hydrogenIncentives, subsidyPercentage, fastTrackApproval,*)
(*    landAcquisitionSupport, infrastructureSupport, maxCapacity,          *)
(*    environmentalLimitations, seasonalRestrictions, approvalTimeline,    *)
(*    authority]                                                           *)
(* maxCapacity = -1 stands for null, authority = "" for no authority.      *)
(***************************************************************************)
\* mutant of zoneTypeBonus: the port authority gets the industrial bonus
zoneTypeBonusPortAsIndustrial(type) ==
  CASE type = "hydrogen-priority-zone" -> 25
    [] type = "renewable-energy-zone" -> 20
    [] type = "industrial-zone" -> 15
    [] type = "special-economic-zone" -> 15
    [] type = "port-authority" -> 15
    [] type = "environmental-sensitive" -> 0 - 20
    [] type = "restricted-zone" -> 0 - 30
    [] type = "government-incentive-zone" -> 20
    [] OTHER -> 0

zoneTypeBonus(type) ==
  CASE type = "hydrogen-priority-zone" -> 25
    [] type = "renewable-energy-zone" -> 20
    [] type = "industrial-zone" -> 15
    [] type = "special-economic-zone" -> 15
    [] type = "port-authority" -> 10
    [] type = "environmental-sensitive" -> 0 - 20
    [] type = "restricted-zone" -> 0 - 30
    [] type = "government-incentive-zone" -> 20
    [] OTHER -> 0

\* mutant of calculateRegulatoryScore: the final clamp to 0..100 is missing
calculateRegulatoryScoreUnclamped(zone) ==
  RoundDiv(5000 + (IF zone.hydrogenIncentives THEN 2000 ELSE 0)
             + zone.subsidyPercentage * 15
             + (IF zone.fastTrackApproval THEN 1000 ELSE 0)
             + (IF zone.landAcquisitionSupport THEN 1000 ELSE 0)
             + (IF zone.infrastructureSupport THEN 1000 ELSE 0)
             + zoneTypeBonus(zone.type) * 100
             - Len(zone.environmentalLimitations) * 500
             - Len(zone.seasonalRestrictions) * 300
             + (IF zone.approvalTimeline > 365 THEN 0 - 1000
                ELSE IF zone.approvalTimeline > 180 THEN 0 - 500
                ELSE IF zone.approvalTimeline <= 90 THEN 500 ELSE 0),
           100)

\* RegulatoryZone.calculateRegulatoryScore, computed in 1/100 and rounded
calculateRegulatoryScore(zone) ==
  LET base == 5000
      incentives == IF zone.hydrogenIncentives THEN 2000 ELSE 0
      subsidy == zone.subsidyPercentage * 15
      fastTrack == IF zone.fastTrackApproval THEN 1000 ELSE 0
      land == IF zone.landAcquisitionSupport THEN 1000 ELSE 0
      infra == IF zone.infrastructureSupport THEN 1000 ELSE 0
      typeBonus == zoneTypeBonus(zone.type) * 100
      environmental == Len(zone.environmentalLimitations) * 500
      seasonal == Len(zone.seasonalRestrictions) * 300
      timeline == IF zone.approvalTimeline > 365 THEN 0 - 1000
                  ELSE IF zone.approvalTimeline > 180 THEN 0 - 500
                  ELSE IF zone.approvalTimeline <= 90 THEN 500
                  ELSE 0
      score == base + incentives + subsidy + fastTrack + land + infra + typeBonus
               - environmental - seasonal + timeline
  IN  Max2(0, Min2(100, RoundDiv(score, 100)))

RECURSIVE SumSeq(_)
SumSeq(q) == IF q = <<>> THEN 0 ELSE Head(q) + SumSeq(Tail(q))

\* mutant of Slice: one element too many
SliceOneMore(q, n) == SubSeq(q, 1, Min2(n + 1, Len(q)))

\* q.slice(0, n)
Slice(q, n) == SubSeq(q, 1, Min2(n, Len(q)))

\* the incentive strings one zone pushes, in push order
ZoneIncentives(zone) ==
  (IF zone.hydrogenIncentives
     THEN << [zone |-> zone.name, what |-> "Hydrogen development incentives available"] >>
     ELSE << >>)
  \o (IF zone.subsidyPercentage > 0
        THEN << [zone |-> zone.name, what |-> "% subsidy available"] >> ELSE << >>)
  \o (IF zone.fastTrackApproval
        THEN << [zone |-> zone.name, what |-> "Fast-track approval process"] >> ELSE << >>)
  \o (IF zone.landAcquisitionSupport
        THEN << [zone |-> zone.name, what |-> "Land acquisition support provided"] >>
        ELSE << >>)
  \o (IF zone.infrastructureSupport
        THEN << [zone |-> zone.name, what |-> "Infrastructure development support"] >>
        ELSE << >>)

\* the restriction strings one zone pushes, in push order; maxCapacity is
\* tested for truthiness, so null (-1) and 0 push nothing
ZoneRestrictions(zone) ==
  (IF zone.maxCapacity > 0
     THEN << [zone |-> zone.name, what |-> "Maximum capacity"] >> ELSE << >>)
  \o [k \in 1..Len(zone.environmentalLimitations) |->
        [zone |-> zone.name, what |-> zone.environmentalLimitations[k]]]
  \o [k \in 1..Len(zone.seasonalRestrictions) |->
        [zone |-> zone.name, what |-> "Seasonal restrictions"]]

\* the contact record one zone pushes
ZoneContacts(zone) ==
  IF zone.authority # ""
  THEN << [zone |-> zone.name, authority |-> zone.authority] >> ELSE << >>

RECURSIVE Collect(_, _, _)
\* zones.forEach: the concatenation of what each zone pushes (which = 1
\* incentives, 2 restrictions, 3 contacts)
Collect(zones, which, k) ==
  IF k > Len(zones) THEN << >>
  ELSE (CASE which = 1 -> ZoneIncentives(zones[k])
          [] which = 2 -> ZoneRestrictions(zones[k])
          [] OTHER -> ZoneContacts(zones[k]))
       \o Collect(zones, which, k + 1)

\* mutant of ShortestApproval: the timeline is assigned without the comparison,
\* so the last zone wins
LastApproval(zones, k, m) == zones[Len(zones)].approvalTimeline

RECURSIVE ShortestApproval(_, _, _)
\* the running minimum of zone.approvalTimeline; -1 stands for Infinity
ShortestApproval(zones, k, m) ==
  IF k > Len(zones) THEN m
  ELSE ShortestApproval(zones, k + 1,
         IF m < 0 \/ zones[k].approvalTimeline < m
         THEN zones[k].approvalTimeline ELSE m)

\* the level of analyzeRegulatoryEnvironment for a non-empty zone list
\* mutant of RegulatoryLevel: the thresholds are compared with >
RegulatoryLevelStrict(overallScore) ==
  IF overallScore > 80 THEN "Highly Favorable"
  ELSE IF overallScore > 60 THEN "Favorable"
  ELSE IF overallScore > 40 THEN "Moderate"
  ELSE IF overallScore > 20 THEN "Challenging"
  ELSE "Unfavorable"

RegulatoryLevel(overallScore) ==
  IF overallScore >= 80 THEN "Highly Favorable"
  ELSE IF overallScore >= 60 THEN "Favorable"
  ELSE IF overallScore >= 40 THEN "Moderate"
  ELSE IF overallScore >= 20 THEN "Challenging"
  ELSE "Unfavorable"

\* mutant of RegulatoryAnalysis: the lists are returned without their caps
RegulatoryAnalysisUncapped(zones, overallScore, shortestApproval) ==
  [ overallScore |-> overallScore,
    level |-> RegulatoryLevel(overallScore),
    recommendations |-> 3,
    incentives |-> Collect(zones, 1, 1),
    restrictions |-> Collect(zones, 2, 1),
    approvalEstimated |-> shortestApproval < 0,
    approvalMonths |-> IF shortestApproval < 0 THEN 0
                       ELSE (shortestApproval + 29) \div 30,
    keyContacts |-> Collect(zones, 3, 1),
    affectedZones |-> Len(zones) ]

\* the object analyzeRegulatoryEnvironment returns for a non-empty zone list
RegulatoryAnalysis(zones, overallScore, shortestApproval) ==
  [ overallScore |-> overallScore,
    level |-> RegulatoryLevel(overallScore),
    recommendations |-> 3,
    incentives |-> Slice(Collect(zones, 1, 1), 5),
    restrictions |-> Slice(Collect(zones, 2, 1), 5),
    approvalEstimated |-> shortestApproval < 0,
    \* Math.ceil(shortestApproval / 30)
    approvalMonths |-> IF shortestApproval < 0 THEN 0
                       ELSE (shortestApproval + 29) \div 30,
    keyContacts |-> Slice(Collect(zones, 3, 1), 3),
    affectedZones |-> Len(zones) ]

\* mutant of analyzeRegulatoryEnvironment: an empty zone list gets the base
\* score of a zone instead of the neutral 30
analyzeRegulatoryEnvironmentBase50(zones) ==
  IF Len(zones) = 0
  THEN [ overallScore |-> 50, level |-> "Unknown", recommendations |-> 3,
         incentives |-> << >>, restrictions |-> << >>,
         approvalEstimated |-> TRUE, approvalMonths |-> 0,
         keyContacts |-> << >>, affectedZones |-> 0 ]
  ELSE RegulatoryAnalysis(
         zones,
         RoundDiv(SumSeq([k \in 1..Len(zones) |-> calculateRegulatoryScore(zones[k])]),
                  Len(zones)),
         ShortestApproval(zones, 1, 0 - 1))

\* mutant of analyzeRegulatoryEnvironment: the mean is truncated (Math.floor)
analyzeRegulatoryEnvironmentFloor(zones) ==
  IF Len(zones) = 0
  THEN [ overallScore |-> 30, level |-> "Unknown", recommendations |-> 3,
         incentives |-> << >>, restrictions |-> << >>,
         approvalEstimated |-> TRUE, approvalMonths |-> 0,
         keyContacts |-> << >>, affectedZones |-> 0 ]
  ELSE RegulatoryAnalysis(
         zones,
         SumSeq([k \in 1..Len(zones) |-> calculateRegulatoryScore(zones[k])])
           \div Len(zones),
         ShortestApproval(zones, 1, 0 - 1))

(***************************************************************************)
(* analyzeRegulatoryEnvironment(zones, lat, lng).  approvalMonths = 0      *)
(* with approvalEstimated stands for '6-12 months (estimated)'.            *)
(***************************************************************************)
analyzeRegulatoryEnvironment(zones) ==
  IF Len(zones) = 0
  THEN [ overallScore |-> 30, level |-> "Unknown", recommendations |-> 3,
         incentives |-> << >>, restrictions |-> << >>,
         approvalEstimated |-> TRUE, approvalMonths |-> 0,
         keyContacts |-> << >>, affectedZones |-> 0 ]
  ELSE RegulatoryAnalysis(
         zones,
         \* Math.round(sum / length)
         RoundDiv(SumSeq([k \in 1..Len(zones) |-> calculateRegulatoryScore(zones[k])]),
                  Len(zones)),
         ShortestApproval(zones, 1, 0 - 1))

(***************************************************************************)
(* The handlers.                                                           *)
(***************************************************************************)
VARIABLES
  req,        \* req.body of the call being served
  pc,         \* position of the handler
  rng,        \* state of the Math.random() stream
  demandCenterCoords, \* analyzeArea: the snapshot returned by DemandCenter.find
  sites,      \* analyzeArea: the sites pushed so far
  i,          \* analyzeArea: row index of the grid loop
  j,          \* analyzeArea: column index of the grid loop
  nearest,    \* calculateSuitability: result of DemandCenter.findOne
  regulatoryZones, \* calculateSuitability: result of RegulatoryZone.find
  res,        \* the response sent (status 0: none yet)
  dbCalls,    \* history: number of collaborator queries issued
  sent,       \* history: number of responses sent
  draws       \* history, for each of two interleaved requests: where in the
              \* Math.random() stream its scorer calls began, and where the
              \* requests stood at that time

vars ==
  << req, pc, rng, demandCenterCoords, sites, i, j, nearest, regulatoryZones, res,
     dbCalls, sent, draws >>

\* null
Null == [null |-> TRUE]

\* an argument that a call does not pass
Undefined == 0 - 1

\* number of seeds of the random stream
MaxSeed == 1

\* Math.random(): the stream is a full-period congruential sequence over
\* 0..999; a draw returns the current state
NextRandom(x) == (21 * x + 7) % E3

\* the values of four successive Math.random() calls
FourDraws(x) ==
  << x, NextRandom(x), NextRandom(NextRandom(x)),
     NextRandom(NextRandom(NextRandom(x))) >>

AfterFourDraws(x) == NextRandom(NextRandom(NextRandom(NextRandom(x))))

\* default of gridResolution in the destructuring of req.body
DefaultGridResolution == 20

\* the ceiling on the grid resolution
MaxGrid == 8

\* Requested grid resolutions are carried in halves (5 is 2.5), so that
\* non-integer requests are covered.
GridResolution(body) ==
  IF body.gridGiven THEN body.gridResolution ELSE 2 * DefaultGridResolution

\* mutant of actualGridResolution: the ceiling is not applied
UnclampedGridResolution(body) == GridResolution(body)

\* mutant of actualGridResolution: the ceiling is one too low
CeilingOneLow(body) == Min2(GridResolution(body), 2 * (MaxGrid - 1))

\* Math.min(gridResolution, 8), in halves
actualGridResolution(body) == Min2(GridResolution(body), 2 * MaxGrid)

\* the loop test k < actualGridResolution
InLoop(k, body) == 2 * k < actualGridResolution(body)

\* south + ((i + 0.5) * latStep) with latStep = (north - south) / gridResolution
CellLat(body, row) ==
  body.south + ((2 * row + 1) * (body.north - body.south)) \div GridResolution(body)

\* west + ((j + 0.5) * lngStep) with lngStep = (east - west) / gridResolution
CellLng(body, col) ==
  body.west + ((2 * col + 1) * (body.east - body.west)) \div GridResolution(body)

\* fallback distance to demand, centi-km (100 km)
FallbackDistance == 10000

\* early-exit threshold of the demand scan, centi-km (5 km)
EarlyExit == 500

RECURSIVE ScanDemand(_, _, _, _, _), ScanStep(_, _, _, _, _, _)
\* the for..of over demandCenterCoords: k is the next index, m the running
\* minDistance
ScanDemand(lat, lng, coords, k, m) ==
  IF k > Len(coords) THEN m
  ELSE ScanStep(lat, lng, coords, k, m,
                calculateDistance(lat, lng, coords[k].lat, coords[k].lng))

\* mutant of ScanStep: no early break, the scan always visits every center
ScanStepNoBreak(lat, lng, coords, k, m, distance) ==
  ScanDemand(lat, lng, coords, k + 1,
             IF distance # NaN /\ distance < m THEN distance ELSE m)

\* mutant of ScanStep: the break follows every improvement of the minimum,
\* not only one below 5 km
ScanStepBreakOnImprovement(lat, lng, coords, k, m, distance) ==
  IF distance # NaN /\ distance < m THEN distance
  ELSE ScanDemand(lat, lng, coords, k + 1, m)

\* mutant of ScanStep: minDistance starts at Infinity, so the first center is
\* taken whatever its distance
ScanStepFromInfinity(lat, lng, coords, k, m, distance) ==
  IF distance # NaN /\ (k = 1 \/ distance < m) /\ distance < EarlyExit THEN distance
  ELSE ScanDemand(lat, lng, coords, k + 1,
                  IF distance # NaN /\ (k = 1 \/ distance < m) THEN distance ELSE m)

\* one iteration of the scan, distance being the distance to center k
ScanStep(lat, lng, coords, k, m, distance) ==
  IF distance # NaN /\ distance < m /\ distance < EarlyExit THEN distance
  ELSE ScanDemand(lat, lng, coords, k + 1,
                  IF distance # NaN /\ distance < m THEN distance ELSE m)

\* the body of the grid loop for one cell: the site pushed
Site(siteResult, lat, lng, row, col) ==
  [ result |-> siteResult,
    score |-> siteResult.score,
    location |-> [lat |-> lat, lng |-> lng],
    interpretation |-> getScoreInterpretation(siteResult.score),
    cell |-> << row, col >> ]

\* the site of the point (lat, lng): demand scan, then the scorer
SiteAt(lat, lng, coords, row, col, us) ==
  Site(calculateSuitabilityScore(lat, lng,
                                 ScanDemand(lat, lng, coords, 1, FallbackDistance),
                                 Undefined, us),
       lat, lng, row, col)

CellSite(body, coords, row, col, us) ==
  SiteAt(CellLat(body, row), CellLng(body, col), coords, row, col, us)

\* mutant of CompareSites: ascending order
CompareSitesAscending(a, b) == a.score - b.score

\* the comparator of the sort: (a, b) => b.score - a.score
CompareSites(a, b) == b.score - a.score

\* mutant of SortRank: elements that compare equal come out in reverse order
SortRankUnstable(q, k) ==
  1 + Cardinality({m \in 1..Len(q) :
                     \/ CompareSites(q[m], q[k]) < 0
                     \/ CompareSites(q[m], q[k]) = 0 /\ m > k})

\* position of q[k] after the sort: behind the elements the comparator puts
\* first and behind the earlier elements that compare equal (the sort is
\* stable)
SortRank(q, k) ==
  1 + Cardinality({m \in 1..Len(q) :
                     \/ CompareSites(q[m], q[k]) < 0
                     \/ CompareSites(q[m], q[k]) = 0 /\ m < k})

\* Array.prototype.sort with CompareSites
SortSites(q) ==
  LET rank == [k \in 1..Len(q) |-> SortRank(q, k)]
  IN  [p \in 1..Len(q) |-> q[CHOOSE k \in 1..Len(q) : rank[k] = p]]

\* sites.filter(s => s.score >= lo && s.score < hi).length; a filter with one
\* bound only passes the other beyond every score
\* mutant of CountSites: the upper end of the band is not tested
CountSitesAbove(q, lo, hi) ==
  Cardinality({k \in 1..Len(q) : q[k].score >= lo})

CountSites(q, lo, hi) ==
  Cardinality({k \in 1..Len(q) : q[k].score >= lo /\ q[k].score < hi})

RECURSIVE MaxScore(_, _, _)
MaxScore(q, k, m) ==
  IF k > Len(q) THEN m ELSE MaxScore(q, k + 1, Max2(m, q[k].score))

RECURSIVE MinScore(_, _, _)
MinScore(q, k, m) ==
  IF k > Len(q) THEN m ELSE MinScore(q, k + 1, Min2(m, q[k].score))

\* calculateAreaStats(sites, bounds, polygon); scores in centi-points,
\* spans in centi-km, area in 1/100 km2 (latKm * lngKm / 10^6 is in that unit)
AreaStats(q, latKm, lngKm) ==
  LET scores == [k \in 1..Len(q) |-> q[k].score]
  IN  [ sitesAnalyzed |-> Len(q),
        avgScore |-> IF Len(q) > 0 THEN RoundDiv(SumSeq(scores), Len(q)) ELSE 0,
        maxScore |-> IF Len(q) > 0 THEN MaxScore(q, 2, q[1].score) ELSE 0,
        minScore |-> IF Len(q) > 0 THEN MinScore(q, 2, q[1].score) ELSE 0,
        areaSize |-> Abs(MulE6(latKm, lngKm)),
        suitableSites |-> CountSites(q, 6000, E6),
        excellentSites |-> CountSites(q, 8000, E6),
        goodSites |-> CountSites(q, 6000, 8000),
        fairSites |-> CountSites(q, 4000, 6000),
        poorSites |-> CountSites(q, 0 - E6, 4000),
        latitudeSpan |-> RoundDiv(latKm, 100),
        longitudeSpan |-> RoundDiv(lngKm, 100) ]

calculateAreaStats(q, body) ==
  LET latDiff == body.north - body.south
      lngDiff == body.east - body.west
  IN  AreaStats(q,
                \* latDiff * 111, in 1/10000 km
                latDiff * 1110,
                \* lngDiff * 111 * Math.cos(((north + south) / 2) * Math.PI / 180)
                MulE6(lngDiff * 1110, Cos(toRad((body.north + body.south) \div 2))))

(***************************************************************************)
(* Inputs.                                                                 *)
(***************************************************************************)
\* bounding rectangles <<north, south, east, west>>: the Gujarat rectangle,
\* a small rectangle around Ahmedabad, and degenerate ones
ValidBounds ==
  { << 24500, 20000, 74500, 68500 >>, << 23100, 22940, 72660, 72500 >> }

DegenerateBounds ==
  { << 20000, 24000, 74500, 68500 >>, << 24500, 20000, 68500, 74500 >>,
    << 22000, 22000, 74500, 68500 >>, << 24500, 20000, 70000, 70000 >> }

\* largest requested grid resolution of the sweep, in halves (6 is 3)
MaxRequest == 6

\* requested grid resolutions, in halves: -1, -0.5, 0, 0.5 .. 3, then 8 and 100
GridRequests == (0 - 2)..MaxRequest \cup {16, 200}

AreaBody(b, given, g, hasBounds, hasPolygon) ==
  [ kind |-> "area", hasBounds |-> hasBounds, hasPolygon |-> hasPolygon,
    north |-> b[1], south |-> b[2], east |-> b[3], west |-> b[4],
    gridGiven |-> given, gridResolution |-> g ]

AreaRequests ==
  { AreaBody(b, TRUE, g, TRUE, TRUE) : b \in ValidBounds, g \in GridRequests }
  \cup { AreaBody(b, FALSE, 0, TRUE, TRUE) : b \in ValidBounds }
  \cup { AreaBody(b, TRUE, g, TRUE, TRUE) : b \in DegenerateBounds, g \in {4, 16, 200} }
  \cup { AreaBody(b, TRUE, 4, hb, hp) :
           b \in ValidBounds, hb \in BOOLEAN, hp \in BOOLEAN }

\* demand centers of the store, [name, demand, type, lat, lng]
Center(name, lat, lng) ==
  [ name |-> name, demand |-> 5000, type |-> "industrial", lat |-> lat, lng |-> lng ]

Ahmedabad == Center("Ahmedabad", 23022, 72571)
Sanand    == Center("Sanand", 22990, 72530)
Surat     == Center("Surat", 21170, 72831)
Jaipur    == Center("Jaipur", 26912, 75787)

\* what DemandCenter.find may return
Snapshots ==
  { << >>, << Surat, Ahmedabad, Sanand >>, << Jaipur >> }

\* what DemandCenter.findOne may return
NearestChoices == { Null, Ahmedabad, Surat }

Zone(name, type, inc, sub, fast, land, infra, cap, env, seas, days, auth) ==
  [ name |-> name, type |-> type, hydrogenIncentives |-> inc,
    subsidyPercentage |-> sub, fastTrackApproval |-> fast,
    landAcquisitionSupport |-> land, infrastructureSupport |-> infra,
    maxCapacity |-> cap, environmentalLimitations |-> env,
    seasonalRestrictions |-> seas, approvalTimeline |-> days, authority |-> auth ]

PriorityZone ==
  Zone("Kutch H2 Hub", "hydrogen-priority-zone", TRUE, 30, TRUE, TRUE, TRUE,
       0 - 1, << >>, << >>, 60, "GEDA")

IndustrialZone ==
  Zone("Dahej PCPIR", "industrial-zone", FALSE, 10, FALSE, FALSE, TRUE,
       500, << "emission-limit" >>, << >>, 200, "GIDC")

SensitiveZone ==
  Zone("Marine Sanctuary", "environmental-sensitive", FALSE, 0, FALSE, FALSE, FALSE,
       0, << "water-usage-limit", "noise-restriction", "land-use-restriction" >>,
       << [months |-> << "jun", "jul" >>, reason |-> "breeding"],
          [months |-> << "dec" >>, reason |-> "migration"] >>, 400, "")

PortZone ==
  Zone("Kandla Port", "port-authority", FALSE, 0, TRUE, FALSE, TRUE,
       200, << "emission-limit", "noise-restriction" >>,
       << [months |-> << "jul", "aug" >>, reason |-> "monsoon"] >>, 0, "DPA")

IncentiveZone ==
  Zone("Dholera SIR", "government-incentive-zone", TRUE, 25, FALSE, TRUE, FALSE,
       0 - 1, << >>, << >>, 95, "DSIRDA")

\* what RegulatoryZone.find may return
ZoneLists ==
  { << >>, << PriorityZone >>, << IndustrialZone >>, << SensitiveZone >>,
    << IndustrialZone, PriorityZone >>,
    << PriorityZone, IndustrialZone, SensitiveZone >> }

PointBody(hasLat, lat, hasLng, lng) ==
  [ kind |-> "point", hasLat |-> hasLat, lat |-> lat, hasLng |-> hasLng, lng |-> lng ]

PointRequests ==
  { PointBody(TRUE, lat, TRUE, lng) :
      lat \in {0 - 90000, 0 - 90001, 0, 21000, 23022, 28600, 90000, 90001},
      lng \in {0 - 180001, 0 - 180000, 0, 70000, 72571, 77200, 180000, 180001} }
  \cup { PointBody(hl, 23022, hg, 72571) : hl \in BOOLEAN, hg \in BOOLEAN }

Seeds == { (317 * k + 123) % E3 : k \in 0..MaxSeed }

Respond(status, body) ==
  /\ res' = [status |-> status, body |-> body]
  /\ sent' = sent + 1
  /\ pc' = "done"

Init ==
  /\ req \in AreaRequests \cup PointRequests
  /\ pc = "start"
  /\ rng \in Seeds
  /\ demandCenterCoords = << >>
  /\ sites = << >>
  /\ i = 0
  /\ j = 0
  /\ nearest = Null
  /\ regulatoryZones = << >>
  /\ res = [status |-> 0, body |-> Null]
  /\ dbCalls = 0
  /\ sent = 0
  /\ draws = << >>

(***************************************************************************)
(* analyzeArea                                                             *)
(***************************************************************************)
\* mutant of InvalidBounds: strict comparisons, so an empty rectangle passes
InvalidBoundsStrict(body) == body.north < body.south \/ body.east < body.west

\* if (north <= south || east <= west)
InvalidBounds(body) == body.north <= body.south \/ body.east <= body.west

\* the validation, up to the await of DemandCenter.find
AnalyzeAreaStart ==
  /\ pc = "start"
  /\ req.kind = "area"
  /\ IF ~req.hasBounds \/ ~req.hasPolygon
     THEN /\ Respond(400, [error |-> "Missing required parameters"])
          /\ UNCHANGED dbCalls
     ELSE IF InvalidBounds(req)
     THEN /\ Respond(400, [error |-> "Invalid bounds"])
          /\ UNCHANGED dbCalls
     ELSE /\ pc' = "find"
          /\ dbCalls' = dbCalls + 1
          /\ UNCHANGED << res, sent >>
  /\ UNCHANGED << req, regulatoryZones, draws, rng, demandCenterCoords, sites, i, j, nearest >>

\* DemandCenter.find resolves: the snapshot is mapped to coordinates and the
\* grid loop starts
AnalyzeAreaFind ==
  /\ pc = "find"
  /\ \E snapshot \in Snapshots :
       demandCenterCoords' =
         [k \in 1..Len(snapshot) |-> [lat |-> snapshot[k].lat, lng |-> snapshot[k].lng]]
  /\ sites' = << >>
  /\ i' = 0
  /\ j' = 0
  /\ pc' = "grid"
  /\ UNCHANGED << req, regulatoryZones, draws, rng, nearest, res, dbCalls, sent >>

\* DemandCenter.find rejects: the catch block answers 500
AnalyzeAreaFindFails ==
  /\ pc = "find"
  /\ Respond(500, [error |-> "Failed to analyze area"])
  /\ UNCHANGED << req, regulatoryZones, draws, rng, demandCenterCoords, sites, i, j, nearest, dbCalls >>

\* one iteration of the inner loop
AnalyzeAreaCell ==
  /\ pc = "grid"
  /\ InLoop(i, req)
  /\ IF InLoop(j, req)
     THEN /\ sites' = Append(sites, CellSite(req, demandCenterCoords, i, j, FourDraws(rng)))
          /\ rng' = AfterFourDraws(rng)
          /\ j' = j + 1
          /\ i' = i
     ELSE /\ i' = i + 1
          /\ j' = 0
          /\ UNCHANGED << sites, rng >>
  /\ UNCHANGED << req, regulatoryZones, draws, pc, demandCenterCoords, nearest, res, dbCalls, sent >>

\* mutant of AreaResult: the best site is taken only from a list of two or more
AreaResultOffByOne(sorted, body) ==
  [ bestSite |-> IF Len(sorted) > 1 THEN sorted[1] ELSE Null,
    sites |-> Slice(sorted, 10),
    areaStats |-> calculateAreaStats(sorted, body),
    gridResolution |-> actualGridResolution(body),
    totalSitesAnalyzed |-> Len(sorted),
    analysisType |-> "square" ]

\* the result object built from the sorted sites
AreaResult(sorted, body) ==
  [ bestSite |-> IF Len(sorted) > 0 THEN sorted[1] ELSE Null,
    sites |-> Slice(sorted, 10),
    areaStats |-> calculateAreaStats(sorted, body),
    gridResolution |-> actualGridResolution(body),
    totalSitesAnalyzed |-> Len(sorted),
    analysisType |-> "square" ]

\* after the loops: sort, statistics, best site, response
AnalyzeAreaRespond ==
  /\ pc = "grid"
  /\ ~InLoop(i, req)
  /\ sites' = SortSites(sites)
  /\ Respond(200, AreaResult(sites', req))
  /\ UNCHANGED << req, regulatoryZones, draws, rng, demandCenterCoords, i, j, nearest, dbCalls >>

(***************************************************************************)
(* calculateSuitability                                                    *)
(***************************************************************************)
\* !lat: true for a missing value and for 0
Falsy(has, v) == ~has \/ v = 0

\* the validation, up to the await of DemandCenter.findOne
CalculateSuitabilityStart ==
  /\ pc = "start"
  /\ req.kind = "point"
  /\ IF Falsy(req.hasLat, req.lat) \/ Falsy(req.hasLng, req.lng)
     THEN /\ Respond(400, [error |-> "Missing required parameters"])
          /\ UNCHANGED dbCalls
     ELSE IF req.lat < 0 - 90000 \/ req.lat > 90000
             \/ req.lng < 0 - 180000 \/ req.lng > 180000
     THEN /\ Respond(400, [error |-> "Invalid coordinates"])
          /\ UNCHANGED dbCalls
     ELSE /\ pc' = "findOne"
          /\ dbCalls' = dbCalls + 1
          /\ UNCHANGED << res, sent >>
  /\ UNCHANGED << req, regulatoryZones, draws, rng, demandCenterCoords, sites, i, j, nearest >>

\* DemandCenter.findOne resolves, up to the await of RegulatoryZone.find
CalculateSuitabilityFindOne ==
  /\ pc = "findOne"
  /\ nearest' \in NearestChoices
  /\ pc' = "findZones"
  /\ dbCalls' = dbCalls + 1
  /\ UNCHANGED << req, regulatoryZones, draws, rng, demandCenterCoords, sites, i, j, res, sent >>

\* mutant of CalculateSuitabilityFails: the catch block logs the error and
\* sends nothing
CalculateSuitabilityFailsSilently ==
  /\ pc \in {"findOne", "findZones"}
  /\ pc' = "done"
  /\ UNCHANGED << req, regulatoryZones, draws, rng, demandCenterCoords, sites, i, j, nearest,
                  res, dbCalls, sent >>

\* DemandCenter.findOne or RegulatoryZone.find rejects: the catch block
\* answers 500
CalculateSuitabilityFails ==
  /\ pc \in {"findOne", "findZones"}
  /\ Respond(500, [error |-> "Failed to calculate suitability score"])
  /\ UNCHANGED << req, regulatoryZones, draws, rng, demandCenterCoords, sites, i, j, nearest, dbCalls >>

\* the result built once both lookups have resolved
PointResult(result, body, nearestDemandCenter, regulatoryAnalysis) ==
  [ result |-> result,
    score |-> result.score,
    location |-> [lat |-> body.lat, lng |-> body.lng],
    nearestDemandCenter |-> nearestDemandCenter,
    regulatoryAnalysis |-> regulatoryAnalysis,
    interpretation |-> getScoreInterpretation(result.score) ]

\* mutant of DistanceToNearest: the fallback distance is left at 0
DistanceToNearestFromZero(body, nearestDemandCenter) ==
  IF nearestDemandCenter # Null
  THEN calculateDistance(body.lat, body.lng,
                         nearestDemandCenter.lat, nearestDemandCenter.lng)
  ELSE 0

\* distanceToDemand: 100 km unless findOne returned a center
DistanceToNearest(body, nearestDemandCenter) ==
  IF nearestDemandCenter # Null
  THEN calculateDistance(body.lat, body.lng,
                         nearestDemandCenter.lat, nearestDemandCenter.lng)
  ELSE FallbackDistance

ScoredPoint(body, nearestDemandCenter, regulatoryAnalysis, us) ==
  PointResult(calculateSuitabilityScore(body.lat, body.lng,
                                        DistanceToNearest(body, nearestDemandCenter),
                                        regulatoryAnalysis.overallScore, us),
              body, nearestDemandCenter, regulatoryAnalysis)

SuitabilityResult(body, nearestDemandCenter, zones, us) ==
  ScoredPoint(body, nearestDemandCenter, analyzeRegulatoryEnvironment(zones), us)

\* RegulatoryZone.find resolves: regulatory analysis, score, response
CalculateSuitabilityRespond ==
  /\ pc = "findZones"
  /\ regulatoryZones' \in ZoneLists
  /\ Respond(200, SuitabilityResult(req, nearest, regulatoryZones', FourDraws(rng)))
  /\ rng' = AfterFourDraws(rng)
  /\ UNCHANGED << req, draws, demandCenterCoords, sites, i, j, nearest, dbCalls >>

(***************************************************************************)
(* The scorer alone: one call of calculateSuitabilityScore on inputs drawn *)
(* from the corners of its domain.                                         *)
(***************************************************************************)
ScorerLats == { 0 - 90000, 0, 21000, 24200, 28600, 90000 }
ScorerLngs == { 0 - 180000, 70000, 72571, 77200 }
ScorerDistances == { 0, 1, 499, 10000, 2000000 }

ScorerCalls ==
  { [ kind |-> "score", lat |-> lat, lng |-> lng, distanceToDemand |-> d,
      extra |-> x, us |-> << u1, u2, u3, u3 >> ] :
      lat \in ScorerLats, lng \in ScorerLngs, d \in ScorerDistances,
      x \in {Undefined}, u1 \in {0, 500, 999}, u2 \in {0, 999}, u3 \in {0, 999} }

InitScorer ==
  /\ req \in ScorerCalls
  /\ pc = "start"
  /\ rng = 0
  /\ demandCenterCoords = << >>
  /\ sites = << >>
  /\ i = 0
  /\ j = 0
  /\ nearest = Null
  /\ regulatoryZones = << >>
  /\ res = [status |-> 0, body |-> Null]
  /\ dbCalls = 0
  /\ sent = 0
  /\ draws = << >>

ScorerCall ==
  /\ pc = "start"
  /\ req.kind = "score"
  /\ Respond(200, calculateSuitabilityScore(req.lat, req.lng, req.distanceToDemand,
                                            req.extra, req.us))
  /\ UNCHANGED << req, regulatoryZones, draws, rng, demandCenterCoords, sites, i, j, nearest, dbCalls >>

NextScorer == ScorerCall

SpecScorer == InitScorer /\ [][NextScorer]_vars

(***************************************************************************)
(* calculateRegulatoryScore alone: one call on a zone drawn from the       *)
(* corners of the schema (every type, every combination of policy flags,   *)
(* subsidies of 0, 33, 50 and 100 percent, the timeline edges).            *)
(***************************************************************************)
ZoneTypes ==
  { "hydrogen-priority-zone", "industrial-zone", "environmental-sensitive",
    "renewable-energy-zone", "port-authority", "special-economic-zone",
    "restricted-zone", "government-incentive-zone" }

\* largest number of environmental limitation tags of a zone
MaxTags == 4

\* largest number of seasonal restrictions of a zone
MaxSeasonal == 2

LimitationTags ==
  << "water-usage-limit", "noise-restriction", "emission-limit", "land-use-restriction" >>

\* n limitation tags, n seasonal restrictions
Limitations(n) == [k \in 1..n |-> LimitationTags[((k - 1) % 4) + 1]]

Seasons(n) == [k \in 1..n |-> [months |-> << "jun", "jul" >>, reason |-> "monsoon"]]

Timelines == { 0, 90, 91, 180, 181, 365, 366 }

ZoneCalls ==
  { [ kind |-> "zone",
      zone |-> Zone("Zone", type, inc, sub, fast, land, infra, 0 - 1,
                    Limitations(env), Seasons(seas), days, "") ] :
      type \in ZoneTypes, inc \in BOOLEAN, sub \in {0, 33, 50, 100},
      fast \in BOOLEAN, land \in BOOLEAN, infra \in BOOLEAN,
      env \in 0..MaxTags, seas \in 0..MaxSeasonal, days \in Timelines }

InitZone ==
  /\ req \in ZoneCalls
  /\ pc = "start"
  /\ rng = 0
  /\ demandCenterCoords = << >>
  /\ sites = << >>
  /\ i = 0
  /\ j = 0
  /\ nearest = Null
  /\ regulatoryZones = << >>
  /\ res = [status |-> 0, body |-> Null]
  /\ dbCalls = 0
  /\ sent = 0
  /\ draws = << >>

ZoneCall ==
  /\ pc = "start"
  /\ req.kind = "zone"
  /\ Respond(200, [zoneScore |-> calculateRegulatoryScore(req.zone)])
  /\ UNCHANGED << req, regulatoryZones, draws, rng, demandCenterCoords, sites, i, j, nearest, dbCalls >>

NextZone == ZoneCall

SpecZone == InitZone /\ [][NextZone]_vars

(***************************************************************************)
(* analyzeRegulatoryEnvironment alone: one call on every list of at most   *)
(* MaxZones zones drawn from the pool, in every order.                     *)
(***************************************************************************)
ZonePool == { PriorityZone, IndustrialZone, SensitiveZone, PortZone, IncentiveZone }

\* largest number of zones that overlap a point
MaxZones == 4

OverlayZoneLists == UNION { [1..n -> ZonePool] : n \in 0..MaxZones }

InitOverlay ==
  /\ req = [kind |-> "overlay"]
  /\ pc = "start"
  /\ rng = 0
  /\ demandCenterCoords = << >>
  /\ sites = << >>
  /\ i = 0
  /\ j = 0
  /\ nearest = Null
  /\ regulatoryZones \in OverlayZoneLists
  /\ res = [status |-> 0, body |-> Null]
  /\ dbCalls = 0
  /\ sent = 0
  /\ draws = << >>

OverlayCall ==
  /\ pc = "start"
  /\ req.kind = "overlay"
  /\ Respond(200, analyzeRegulatoryEnvironment(regulatoryZones))
  /\ UNCHANGED << req, regulatoryZones, draws, rng, demandCenterCoords, sites, i, j, nearest, dbCalls >>

NextOverlay == OverlayCall

SpecOverlay == InitOverlay /\ [][NextOverlay]_vars

(***************************************************************************)
(* getScoreInterpretation alone: one call on every score in centi-points   *)
(* from -10.00 to 110.00.                                                  *)
(***************************************************************************)
InterpretationCalls ==
  { [ kind |-> "interpretation", score |-> s ] : s \in (0 - E3)..(10 * E3 + E3) }

InitInterpretation ==
  /\ req \in InterpretationCalls
  /\ pc = "start"
  /\ rng = 0
  /\ demandCenterCoords = << >>
  /\ sites = << >>
  /\ i = 0
  /\ j = 0
  /\ nearest = Null
  /\ regulatoryZones = << >>
  /\ res = [status |-> 0, body |-> Null]
  /\ dbCalls = 0
  /\ sent = 0
  /\ draws = << >>

InterpretationCall ==
  /\ pc = "start"
  /\ req.kind = "interpretation"
  /\ Respond(200, [level |-> getScoreInterpretation(req.score)])
  /\ UNCHANGED << req, regulatoryZones, draws, rng, demandCenterCoords, sites, i, j, nearest, dbCalls >>

NextInterpretation == InterpretationCall

SpecInterpretation == InitInterpretation /\ [][NextInterpretation]_vars

(***************************************************************************)
(* calculateDistance on its own: the three calls d(a, a), d(a, b) and      *)
(* d(b, a) for two points drawn from the whole coordinate range.           *)
(***************************************************************************)
DistancePoints ==
  { << 0, 0 >>, << 0, 180000 >>, << 0, 0 - 180000 >>,
    << 90000, 0 >>, << 0 - 90000, 77200 >>,
    << 23022, 72571 >>, << 22990, 72530 >>, << 28600, 77200 >>,
    << 0 - 22000, 72571 - 180000 >>,
    << 12000, 0 >>, << 0 - 12000, 180000 >>,
    << 12000, 0 - 100000 >>, << 0 - 12000, 80000 >> }

DistanceCalls ==
  { [ kind |-> "distance", a |-> a, b |-> b ] : a \in DistancePoints, b \in DistancePoints }

InitDistance ==
  /\ req \in DistanceCalls
  /\ pc = "start"
  /\ rng = 0
  /\ demandCenterCoords = << >>
  /\ sites = << >>
  /\ i = 0
  /\ j = 0
  /\ nearest = Null
  /\ regulatoryZones = << >>
  /\ res = [status |-> 0, body |-> Null]
  /\ dbCalls = 0
  /\ sent = 0
  /\ draws = << >>

DistanceCall ==
  /\ pc = "start"
  /\ req.kind = "distance"
  /\ Respond(200, [ aa |-> calculateDistance(req.a[1], req.a[2], req.a[1], req.a[2]),
                    ab |-> calculateDistance(req.a[1], req.a[2], req.b[1], req.b[2]),
                    ba |-> calculateDistance(req.b[1], req.b[2], req.a[1], req.a[2]) ])
  /\ UNCHANGED << req, regulatoryZones, draws, rng, demandCenterCoords, sites, i, j, nearest, dbCalls >>

NextDistance == DistanceCall

SpecDistance == InitDistance /\ [][NextDistance]_vars

(***************************************************************************)
(* The demand scan of one grid cell on its own: a cell and a snapshot of   *)
(* demand centers in the order the query returned them.                    *)
(***************************************************************************)
\* cells: between Ahmedabad and Sanand, on Ahmedabad, 60 km and 130 km from
\* it, on Surat's outskirts, and far from every center
ScanCells ==
  { << 23000, 72540 >>, << 23022, 72571 >>, << 22500, 72500 >>,
    << 24200, 72571 >>, << 21200, 72800 >>, << 10000, 60000 >> }

ScanCenters == { Ahmedabad, Sanand, Surat, Jaipur }

\* largest snapshot scanned
MaxSnapshot == 3

\* every ordering of every choice of at most MaxSnapshot centers
ScanSnapshots ==
  UNION { { q \in [1..n -> ScanCenters] : \A a, b \in 1..n : a # b => q[a] # q[b] } :
          n \in 0..MaxSnapshot }

ScanCalls ==
  { [ kind |-> "scan", lat |-> c[1], lng |-> c[2], coords |-> q ] :
      c \in ScanCells, q \in ScanSnapshots }

InitScan ==
  /\ req \in ScanCalls
  /\ pc = "start"
  /\ rng = 0
  /\ demandCenterCoords = << >>
  /\ sites = << >>
  /\ i = 0
  /\ j = 0
  /\ nearest = Null
  /\ regulatoryZones = << >>
  /\ res = [status |-> 0, body |-> Null]
  /\ dbCalls = 0
  /\ sent = 0
  /\ draws = << >>

ScanCall ==
  /\ pc = "start"
  /\ req.kind = "scan"
  /\ Respond(200, ScanDemand(req.lat, req.lng, req.coords, 1, FallbackDistance))
  /\ UNCHANGED << req, regulatoryZones, draws, rng, demandCenterCoords, sites, i, j, nearest, dbCalls >>

NextScan == ScanCall

SpecScan == InitScan /\ [][NextScan]_vars

(***************************************************************************)
(* Two requests served by the same process.  The event loop runs one       *)
(* handler at a time and switches only at an await, so each action is the  *)
(* code between two awaits.  Every variable of a handler is held once per  *)
(* request; the Math.random() stream and the request counter are shared.   *)
(***************************************************************************)
Requests == {1, 2}

\* mutant of SitesOf: the sites array is a module-level variable, one for
\* all requests
SitesShared(p) == 1

\* the array that const sites = [] of request p names: its own
SitesOf(p) == p

ConcurrentBounds == << 23100, 22940, 72660, 72500 >>

ConcurrentRequests ==
  { AreaBody(ConcurrentBounds, TRUE, g, TRUE, TRUE) : g \in {2, 4} }
  \cup { AreaBody(<< 22000, 22000, 74500, 68500 >>, TRUE, 4, TRUE, TRUE) }
  \cup { PointBody(TRUE, lat, TRUE, 72571) : lat \in {23022, 90001} }

ConcurrentSnapshots == { << >>, << Ahmedabad, Sanand >> }

ConcurrentNearest == { Null, Ahmedabad }

ConcurrentZoneLists == { << >>, << IndustrialZone, PriorityZone >> }

InitConcurrent ==
  /\ req \in [Requests -> ConcurrentRequests]
  /\ pc = [p \in Requests |-> "start"]
  /\ rng \in Seeds
  /\ demandCenterCoords = [p \in Requests |-> << >>]
  /\ sites = [p \in Requests |-> << >>]
  /\ i = 0
  /\ j = 0
  /\ nearest = [p \in Requests |-> Null]
  /\ regulatoryZones = [p \in Requests |-> << >>]
  /\ res = [p \in Requests |-> [status |-> 0, body |-> Null]]
  /\ dbCalls = 0
  /\ sent = [p \in Requests |-> 0]
  /\ draws = [p \in Requests |-> Undefined]

RespondTo(p, status, body) ==
  /\ res' = [res EXCEPT ![p] = [status |-> status, body |-> body]]
  /\ sent' = [sent EXCEPT ![p] = @ + 1]
  /\ pc' = [pc EXCEPT ![p] = "done"]

RECURSIVE GridLoop(_, _, _, _, _, _)
\* the two grid loops, run to their end: the sites pushed onto acc, the
\* random stream starting at x
GridLoop(body, coords, row, col, x, acc) ==
  IF ~InLoop(row, body) THEN acc
  ELSE IF ~InLoop(col, body) THEN GridLoop(body, coords, row + 1, 0, x, acc)
  ELSE GridLoop(body, coords, row, col + 1, AfterFourDraws(x),
                Append(acc, CellSite(body, coords, row, col, FourDraws(x))))

RECURSIVE AfterDraws(_, _)
\* the random stream after n scorer calls
AfterDraws(x, n) == IF n = 0 THEN x ELSE AfterDraws(AfterFourDraws(x), n - 1)

\* analyzeArea up to await DemandCenter.find: validation, const sites = []
ConcurrentAreaStart(p) ==
  /\ pc[p] = "start"
  /\ req[p].kind = "area"
  /\ IF ~req[p].hasBounds \/ ~req[p].hasPolygon
     THEN /\ RespondTo(p, 400, [error |-> "Missing required parameters"])
          /\ UNCHANGED << sites, dbCalls >>
     ELSE IF InvalidBounds(req[p])
     THEN /\ RespondTo(p, 400, [error |-> "Invalid bounds"])
          /\ UNCHANGED << sites, dbCalls >>
     ELSE /\ sites' = [sites EXCEPT ![SitesOf(p)] = << >>]
          /\ pc' = [pc EXCEPT ![p] = "find"]
          /\ dbCalls' = dbCalls + 1
          /\ UNCHANGED << res, sent >>
  /\ UNCHANGED << req, regulatoryZones, draws, rng, demandCenterCoords, i, j, nearest >>

\* analyzeArea from the resolution of DemandCenter.find to the response: the
\* grid loops, the sort and the result, without an await in between
ConcurrentAreaFinish(p) ==
  /\ pc[p] = "find"
  /\ \E snapshot \in ConcurrentSnapshots :
     \E coords \in { [k \in 1..Len(snapshot) |->
                        [lat |-> snapshot[k].lat, lng |-> snapshot[k].lng]] } :
     \E pushed \in { GridLoop(req[p], coords, 0, 0, rng, sites[SitesOf(p)]) } :
     \E sorted \in { SortSites(pushed) } :
       /\ demandCenterCoords' = [demandCenterCoords EXCEPT ![p] = coords]
       /\ sites' = [sites EXCEPT ![SitesOf(p)] = sorted]
       /\ rng' = AfterDraws(rng, Len(pushed) - Len(sites[SitesOf(p)]))
       /\ RespondTo(p, 200, AreaResult(sorted, req[p]))
  /\ draws' = [draws EXCEPT ![p] = [from |-> rng, during |-> pc]]
  /\ UNCHANGED << req, regulatoryZones, i, j, nearest, dbCalls >>

\* analyzeArea: DemandCenter.find rejects
ConcurrentAreaFails(p) ==
  /\ pc[p] = "find"
  /\ RespondTo(p, 500, [error |-> "Failed to analyze area"])
  /\ UNCHANGED << req, regulatoryZones, draws, rng, demandCenterCoords, sites, i, j, nearest, dbCalls >>

\* calculateSuitability up to await DemandCenter.findOne
ConcurrentPointStart(p) ==
  /\ pc[p] = "start"
  /\ req[p].kind = "point"
  /\ IF Falsy(req[p].hasLat, req[p].lat) \/ Falsy(req[p].hasLng, req[p].lng)
     THEN /\ RespondTo(p, 400, [error |-> "Missing required parameters"])
          /\ UNCHANGED dbCalls
     ELSE IF req[p].lat < 0 - 90000 \/ req[p].lat > 90000
             \/ req[p].lng < 0 - 180000 \/ req[p].lng > 180000
     THEN /\ RespondTo(p, 400, [error |-> "Invalid coordinates"])
          /\ UNCHANGED dbCalls
     ELSE /\ pc' = [pc EXCEPT ![p] = "findOne"]
          /\ dbCalls' = dbCalls + 1
          /\ UNCHANGED << res, sent >>
  /\ UNCHANGED << req, regulatoryZones, draws, rng, demandCenterCoords, sites, i, j, nearest >>

\* calculateSuitability from the resolution of DemandCenter.findOne to await
\* RegulatoryZone.find
ConcurrentPointFindOne(p) ==
  /\ pc[p] = "findOne"
  /\ \E center \in ConcurrentNearest : nearest' = [nearest EXCEPT ![p] = center]
  /\ pc' = [pc EXCEPT ![p] = "findZones"]
  /\ dbCalls' = dbCalls + 1
  /\ UNCHANGED << req, regulatoryZones, draws, rng, demandCenterCoords, sites, i, j, res, sent >>

\* calculateSuitability: one of the two lookups rejects
ConcurrentPointFails(p) ==
  /\ pc[p] \in {"findOne", "findZones"}
  /\ RespondTo(p, 500, [error |-> "Failed to calculate suitability score"])
  /\ UNCHANGED << req, regulatoryZones, draws, rng, demandCenterCoords, sites, i, j, nearest, dbCalls >>

\* calculateSuitability from the resolution of RegulatoryZone.find to the
\* response
ConcurrentPointRespond(p) ==
  /\ pc[p] = "findZones"
  /\ \E zones \in ConcurrentZoneLists :
       regulatoryZones' = [regulatoryZones EXCEPT ![p] = zones]
  /\ draws' = [draws EXCEPT ![p] = [from |-> rng, during |-> pc]]
  /\ rng' = AfterFourDraws(rng)
  /\ RespondTo(p, 200, SuitabilityResult(req[p], nearest[p], regulatoryZones'[p],
                                         FourDraws(rng)))
  /\ UNCHANGED << req, demandCenterCoords, sites, i, j, nearest, dbCalls >>

NextConcurrent ==
  \E p \in Requests :
    \/ ConcurrentAreaStart(p)
    \/ ConcurrentAreaFinish(p)
    \/ ConcurrentAreaFails(p)
    \/ ConcurrentPointStart(p)
    \/ ConcurrentPointFindOne(p)
    \/ ConcurrentPointFails(p)
    \/ ConcurrentPointRespond(p)

SpecConcurrent == InitConcurrent /\ [][NextConcurrent]_vars

Next ==
  \/ AnalyzeAreaStart
  \/ AnalyzeAreaFind
  \/ AnalyzeAreaFindFails
  \/ AnalyzeAreaCell
  \/ AnalyzeAreaRespond
  \/ CalculateSuitabilityStart
  \/ CalculateSuitabilityFindOne
  \/ CalculateSuitabilityFails
  \/ CalculateSuitabilityRespond

Spec == Init /\ [][Next]_vars

\* the control points of the two handlers
ControlPoints == {"start", "find", "grid", "findOne", "findZones", "done"}

\* the control part of a step of a handler that has not responded yet: every
\* action of Next changes the control point or a loop index, and one of them
\* is enabled until the response is sent
Advance ==
  /\ pc # "done"
  /\ pc' \in ControlPoints
  /\ i' \in 0..MaxGrid
  /\ j' \in 0..MaxGrid

\* the handlers under the scheduling of the event loop: synchronous code runs
\* to its next await, and the continuation of a lookup runs once the lookup
\* has resolved or rejected, so a handler that has not responded eventually
\* moves on
SpecLive == Spec /\ WF_<< pc, i, j >>(Advance)
(***************************************************************************)
(* Properties.                                                             *)
(***************************************************************************)
AreaDone == pc = "done" /\ req.kind = "area" /\ res.status = 200

PointDone == pc = "done" /\ req.kind = "point" /\ res.status = 200

ScorerDone == pc = "done" /\ req.kind = "score"

\* C1: analyzeArea never evaluates more than 64 cells, at most 8 rows and 8
\* columns, whatever grid resolution is requested.
C1_AtMost64Cells ==
  req.kind = "area" =>
    /\ Len(sites) <= MaxGrid * MaxGrid
    /\ \A k \in 1..Len(sites) :
         /\ sites[k].cell[1] \in 0..(MaxGrid - 1)
         /\ sites[k].cell[2] \in 0..(MaxGrid - 1)

\* a request for a 100 x 100 grid has been answered with 64 cells
C1_Witness ==
  /\ AreaDone
  /\ req.gridGiven
  /\ req.gridResolution = 200
  /\ Len(sites) = 64

\* C2 (as claimed): every evaluated cell (row, col) lies on the uniform R x R
\* lattice spanning the bounds, R being the clamped resolution:
\* lat = south + (row + 0.5) * (north - south) / R, and the same for lng.
C2_LatticeSpansBounds ==
  req.kind = "area" =>
    \A k \in 1..Len(sites) :
      /\ sites[k].location.lat =
           req.south + ((2 * sites[k].cell[1] + 1) * (req.north - req.south))
                         \div actualGridResolution(req)
      /\ sites[k].location.lng =
           req.west + ((2 * sites[k].cell[2] + 1) * (req.east - req.west))
                        \div actualGridResolution(req)

\* C3: a rectangle with north <= south or east <= west is answered 400 with
\* an error body only; no demand-center lookup is made and no cell evaluated.
C3_DegenerateRejected ==
  (req.kind = "area" /\ req.hasBounds
     /\ (req.north <= req.south \/ req.east <= req.west)) =>
    /\ dbCalls = 0
    /\ sites = << >>
    /\ pc \in {"start", "done"}
    /\ pc = "done" => (res.status = 400 /\ DOMAIN res.body = {"error"})

\* the rectangle north = 20, south = 24 has been rejected
C3_Witness ==
  /\ pc = "done"
  /\ req.kind = "area"
  /\ req.hasBounds /\ req.hasPolygon
  /\ req.north = 20000 /\ req.south = 24000
  /\ res.status = 400

\* C4: for valid bounds and an integer gridResolution R in 1..8, exactly R * R
\* cells are analyzed (sitesAnalyzed = totalSitesAnalyzed = R * R), bestSite
\* is not null and is the first entry of the returned list.
C4_ExactlyRSquared ==
  (AreaDone /\ req.gridGiven /\ req.gridResolution % 2 = 0
     /\ req.gridResolution >= 2 /\ req.gridResolution <= 2 * MaxGrid) =>
    LET R == req.gridResolution \div 2
    IN  /\ res.body.areaStats.sitesAnalyzed = R * R
        /\ res.body.totalSitesAnalyzed = R * R
        /\ res.body.bestSite # Null
        /\ res.body.bestSite = res.body.sites[1]

\* the 8 x 8 request has been answered with 64 analyzed cells
C4_Witness ==
  /\ AreaDone
  /\ req.gridGiven
  /\ req.gridResolution = 16
  /\ res.body.areaStats.sitesAnalyzed = 64

\* C5 (as claimed): a successful analyzeArea response never has bestSite =
\* null, whatever gridResolution was requested, and bestSite is the first
\* element of the sorted list.
C5_BestSiteNeverNone ==
  AreaDone => (Len(sites) > 0 /\ res.body.bestSite # Null
               /\ res.body.bestSite = sites[1])

\* C5 (amended): in a successful response bestSite is the first element of
\* the sorted list and is not null when the requested gridResolution is
\* positive; when it is zero or negative the list is empty and bestSite is
\* null.
C5_BestSiteWhenPositive ==
  AreaDone =>
    IF GridResolution(req) > 0
    THEN Len(sites) > 0 /\ res.body.bestSite # Null /\ res.body.bestSite = sites[1]
    ELSE sites = << >> /\ res.body.bestSite = Null

\* a request for gridResolution 0.5 has been answered with a best site
C5_Witness ==
  /\ AreaDone
  /\ req.gridGiven
  /\ req.gridResolution = 1
  /\ res.body.bestSite # Null

CountIn(q, x) == Cardinality({k \in 1..Len(q) : q[k] = x})

IndexIn(q, x) == CHOOSE k \in 1..Len(q) : q[k] = x

\* before is in row-major scan order: rows south to north, within a row
\* west to east
RowMajor(before) ==
  \A a, b \in 1..Len(before) :
    a < b =>
      /\ \/ before[a].cell[1] < before[b].cell[1]
         \/ /\ before[a].cell[1] = before[b].cell[1]
            /\ before[a].cell[2] < before[b].cell[2]
      /\ before[a].location.lat <= before[b].location.lat
      /\ before[a].cell[1] = before[b].cell[1] =>
           before[a].location.lng < before[b].location.lng

SortPostcondition(before, after) ==
  /\ Len(after) = Len(before)
  /\ \A k \in 1..Len(before) : CountIn(after, before[k]) = CountIn(before, before[k])
  /\ \A a, b \in 1..Len(after) :
       a < b =>
         /\ after[a].score >= after[b].score
         /\ after[a].score = after[b].score =>
              IndexIn(before, after[a]) < IndexIn(before, after[b])

\* C6: the sort leaves a permutation of the evaluated cells in non-increasing
\* score order, cells of equal score keeping their row-major scan order.
C6_SortedStable ==
  [][ (pc = "grid" /\ pc' = "done") =>
        (RowMajor(sites) /\ SortPostcondition(sites, sites')) ]_vars

\* a sorted list in which two cells have the same score
C6_Witness ==
  /\ AreaDone
  /\ \E a, b \in 1..Len(sites) : a < b /\ sites[a].score = sites[b].score

\* C7: the returned list is the first min(10, n) entries of the sorted list of
\* the n analyzed cells; no returned site scores lower than one left out.
C7_TopTen ==
  AreaDone =>
    LET out == res.body.sites
    IN  /\ Len(out) = Min2(10, Len(sites))
        /\ Len(out) <= 10
        /\ \A k \in 1..Len(out) : out[k] = sites[k]
        /\ \A k \in 1..Len(out) : \A m \in (Len(out) + 1)..Len(sites) :
             out[k].score >= sites[m].score

\* 64 cells were analyzed and 10 returned
C7_Witness ==
  /\ AreaDone
  /\ Len(sites) = 64
  /\ Len(res.body.sites) = 10

\* C8: the reported sub-scores stay within their weights (renewable 0..40,
\* demand 0..30, grid 0..30) and the score within 0..100, for every
\* coordinate, demand distance >= 0 and outcome of the random factors.
C8_SubScoresWithinWeights ==
  ScorerDone =>
    /\ res.body.renewableScore \in 0..4000
    /\ res.body.demandScore \in 0..3000
    /\ res.body.gridScore \in 0..3000
    /\ res.body.score \in 0..10000

\* a call in which the renewable and the demand score reach their weights
C8_Witness ==
  /\ ScorerDone
  /\ res.body.renewableScore = 4000
  /\ res.body.demandScore = 3000

BreakdownSum(r) == r.renewableScore + r.demandScore + r.gridScore

\* C9 (as claimed): the reported score equals the sum of the reported
\* breakdown components.
C9_ScoreIsSumOfBreakdown ==
  ScorerDone => res.body.score = BreakdownSum(res.body)

\* C9 (amended): the reported score is the rounded sum of the unrounded
\* components, so it differs from the sum of the reported components by at
\* most 0.01.
C9_ScoreWithinOneCent ==
  ScorerDone => Abs(res.body.score - BreakdownSum(res.body)) <= 1

\* a result whose score is 0.01 away from the sum of its breakdown
C9_Witness ==
  /\ ScorerDone
  /\ Abs(res.body.score - BreakdownSum(res.body)) = 1

\* C10 (as claimed): with a regulatory score supplied, the total includes the
\* term regulatoryScore / 100 * 20 on top of the three components.
C10_RegulatoryTermInTotal ==
  PointDone =>
    Abs(res.body.score
        - (BreakdownSum(res.body.result) + res.body.regulatoryAnalysis.overallScore * 20))
      <= 2

InterpretationDone == pc = "done" /\ req.kind = "interpretation"

\* C11: the interpretation is a total five-band lookup with exact edges:
\* 80 and above 'Excellent', 60 up to 80 'Good', 40 up to 60 'Fair', 20 up to
\* 40 'Poor', below 20 'Very Poor'; 79.99 is 'Good', 80.00 and 80.01 are
\* 'Excellent'.
C11_FiveBands ==
  InterpretationDone =>
    /\ res.body.level \in {"Excellent", "Good", "Fair", "Poor", "Very Poor"}
    /\ (res.body.level = "Excellent") = (req.score >= 8000)
    /\ (res.body.level = "Good") = (req.score >= 6000 /\ req.score < 8000)
    /\ (res.body.level = "Fair") = (req.score >= 4000 /\ req.score < 6000)
    /\ (res.body.level = "Poor") = (req.score >= 2000 /\ req.score < 4000)
    /\ (res.body.level = "Very Poor") = (req.score < 2000)
    /\ req.score = 7999 => res.body.level = "Good"
    /\ req.score \in {8000, 8001} => res.body.level = "Excellent"

\* the score 80.00 has been interpreted as 'Excellent'
C11_Witness ==
  /\ InterpretationDone
  /\ req.score = 8000
  /\ res.body.level = "Excellent"


ZoneDone == pc = "done" /\ req.kind = "zone"

\* C12: the zone score is in 0..100 for every valid zone: any type, any
\* combination of policy flags, any subsidy in 0..100, any number of
\* limitation tags and seasonal restrictions, any timeline >= 0.
C12_ZoneScoreInRange ==
  ZoneDone => res.body.zoneScore \in 0..100

\* a zone with every flag set has been scored 100 where the terms add up to
\* 145
C12_Witness ==
  /\ ZoneDone
  /\ req.zone.type = "hydrogen-priority-zone"
  /\ req.zone.hydrogenIncentives /\ req.zone.fastTrackApproval
  /\ req.zone.landAcquisitionSupport /\ req.zone.infrastructureSupport
  /\ req.zone.subsidyPercentage = 100
  /\ req.zone.environmentalLimitations = << >>
  /\ req.zone.seasonalRestrictions = << >>
  /\ req.zone.approvalTimeline = 90
  /\ res.body.zoneScore = 100

\* the zone-type bonus as the claim lists it
ClaimedTypeBonus ==
  [ type \in ZoneTypes |->
      IF type = "hydrogen-priority-zone" THEN 25
      ELSE IF type \in {"renewable-energy-zone", "government-incentive-zone"} THEN 20
      ELSE IF type \in {"industrial-zone", "special-economic-zone"} THEN 15
      ELSE IF type = "port-authority" THEN 10
      ELSE IF type = "environmental-sensitive" THEN 0 - 20
      ELSE 0 - 30 ]

\* the sum of the claimed terms for a zone, in hundredths of a point
ClaimedZoneSum(z) ==
  50 * 100
  + 100 * ((IF z.hydrogenIncentives THEN 20 ELSE 0)
           + (IF z.fastTrackApproval THEN 10 ELSE 0)
           + (IF z.landAcquisitionSupport THEN 10 ELSE 0)
           + (IF z.infrastructureSupport THEN 10 ELSE 0)
           + ClaimedTypeBonus[z.type]
           - 5 * Len(z.environmentalLimitations)
           - 3 * Len(z.seasonalRestrictions)
           + (CASE z.approvalTimeline > 365 -> 0 - 10
                [] z.approvalTimeline > 180 /\ z.approvalTimeline <= 365 -> 0 - 5
                [] z.approvalTimeline <= 90 -> 5
                [] OTHER -> 0))
  + z.subsidyPercentage * 15

\* C13 (as claimed): the zone score equals the sum of the terms clamped to
\* 0..100.
C13_ZoneScoreIsClampedSum ==
  ZoneDone =>
    res.body.zoneScore * 100 = Max2(0, Min2(100 * 100, ClaimedZoneSum(req.zone)))

\* C13 (amended): the zone score equals the sum of the terms rounded to the
\* nearest integer (halves up) and then clamped to 0..100.
C13_ZoneScoreIsRoundedClampedSum ==
  ZoneDone =>
    res.body.zoneScore
      = Max2(0, Min2(100, (ClaimedZoneSum(req.zone) + 50) \div 100))

\* a zone whose terms add up to 57.5 has been scored 58
C13_Witness ==
  /\ ZoneDone
  /\ ClaimedZoneSum(req.zone) = 5750
  /\ res.body.zoneScore = 58


OverlayDone == pc = "done" /\ req.kind = "overlay"

\* C14: with an empty zone list the analysis is the neutral result (score 30,
\* level 'Unknown', no incentives, no restrictions, the estimated 6-12 months
\* window, no contacts), and calculateSuitability answers with a full result
\* that carries it.
C14_EmptyOverlayNeutral ==
  (PointDone /\ regulatoryZones = << >>) =>
    /\ res.body.regulatoryAnalysis.overallScore = 30
    /\ res.body.regulatoryAnalysis.level = "Unknown"
    /\ res.body.regulatoryAnalysis.incentives = << >>
    /\ res.body.regulatoryAnalysis.restrictions = << >>
    /\ res.body.regulatoryAnalysis.approvalEstimated
    /\ res.body.regulatoryAnalysis.approvalMonths = 0
    /\ res.body.regulatoryAnalysis.keyContacts = << >>
    /\ res.body.score \in 0..10000
    /\ res.body.interpretation = getScoreInterpretation(res.body.score)
    /\ res.body.location = [lat |-> req.lat, lng |-> req.lng]

\* a point with no regulatory zone has been answered with the neutral analysis
C14_Witness ==
  /\ PointDone
  /\ regulatoryZones = << >>
  /\ dbCalls = 2
  /\ res.body.regulatoryAnalysis.overallScore = 30

\* the zone scores of the overlapping zones
ZoneScores == [k \in 1..Len(regulatoryZones) |-> calculateRegulatoryScore(regulatoryZones[k])]

ApprovalDays == { regulatoryZones[k].approvalTimeline : k \in 1..Len(regulatoryZones) }

\* C16: for a non-empty zone list the approval timeline is the minimum of the
\* zones' timelines, whatever their order, reported as ceil(min / 30) months.
C16_ApprovalIsMinimum ==
  (OverlayDone /\ Len(regulatoryZones) > 0) =>
    LET minDays == CHOOSE d \in ApprovalDays : \A e \in ApprovalDays : d <= e
    IN  /\ ~res.body.approvalEstimated
        /\ 30 * res.body.approvalMonths >= minDays
        /\ 30 * (res.body.approvalMonths - 1) < minDays

\* the shortest timeline, 60 days, is neither the first nor the last zone's
\* and has been reported as 2 months
C16_Witness ==
  /\ OverlayDone
  /\ Len(regulatoryZones) = 3
  /\ regulatoryZones[1].approvalTimeline = 400
  /\ regulatoryZones[2].approvalTimeline = 60
  /\ regulatoryZones[3].approvalTimeline = 200
  /\ res.body.approvalMonths = 2

IsPrefix(out, all, cap) ==
  /\ Len(out) = Min2(cap, Len(all))
  /\ \A k \in 1..Len(out) : out[k] = all[k]

\* C17: the analysis has at most 5 incentives, 5 restrictions, 3
\* recommendations and 3 contacts, each list being the first entries collected
\* in zone order.
C17_ListsCapped ==
  OverlayDone =>
    /\ Len(res.body.incentives) <= 5
    /\ Len(res.body.restrictions) <= 5
    /\ res.body.recommendations <= 3
    /\ Len(res.body.keyContacts) <= 3
    /\ Len(regulatoryZones) > 0 =>
         /\ IsPrefix(res.body.incentives, Collect(regulatoryZones, 1, 1), 5)
         /\ IsPrefix(res.body.restrictions, Collect(regulatoryZones, 2, 1), 5)
         /\ IsPrefix(res.body.keyContacts, Collect(regulatoryZones, 3, 1), 3)

\* more than 5 incentives, 5 restrictions and 3 contacts were collected
C17_Witness ==
  /\ OverlayDone
  /\ Len(Collect(regulatoryZones, 1, 1)) > 5
  /\ Len(Collect(regulatoryZones, 2, 1)) > 5
  /\ Len(Collect(regulatoryZones, 3, 1)) > 3
  /\ Len(res.body.incentives) = 5
  /\ Len(res.body.restrictions) = 5
  /\ Len(res.body.keyContacts) = 3

\* the number of entries of q that say what for the zone called name
Said(q, name, what) ==
  Cardinality({k \in 1..Len(q) : q[k].zone = name /\ q[k].what = what})

\* C18 (as claimed): before truncation a zone contributes exactly one
\* incentive string, prefixed by its name, per enabled policy flag, exactly
\* one restriction string for its capacity cap when maxCapacity is set (any
\* value >= 0), one per limitation tag and one per seasonal restriction.
C18_OneStringPerFlagAndCap ==
  (OverlayDone /\ Len(regulatoryZones) = 1) =>
    LET z == regulatoryZones[1]
        incentives == Collect(regulatoryZones, 1, 1)
        restrictions == Collect(regulatoryZones, 2, 1)
        One(flag) == IF flag THEN 1 ELSE 0
    IN  /\ Said(incentives, z.name, "Hydrogen development incentives available")
             = One(z.hydrogenIncentives)
        /\ Said(incentives, z.name, "Fast-track approval process")
             = One(z.fastTrackApproval)
        /\ Said(incentives, z.name, "Land acquisition support provided")
             = One(z.landAcquisitionSupport)
        /\ Said(incentives, z.name, "Infrastructure development support")
             = One(z.infrastructureSupport)
        /\ Said(restrictions, z.name, "Maximum capacity") = One(z.maxCapacity >= 0)
        /\ Said(restrictions, z.name, "Seasonal restrictions")
             = Len(z.seasonalRestrictions)
        /\ Len(restrictions)
             = One(z.maxCapacity >= 0) + Len(z.environmentalLimitations)
               + Len(z.seasonalRestrictions)


\* C19 (as claimed): every point with latitude in -90..90 and longitude in
\* -180..180, latitude 0 and longitude 0 included, gets past the validation;
\* the only requests rejected with a validation error are those out of range,
\* and they are rejected before any lookup.
C19_InRangeNeverRejected ==
  (req.kind = "point" /\ pc = "done") =>
    /\ (req.hasLat /\ req.hasLng
          /\ req.lat >= 0 - 90000 /\ req.lat <= 90000
          /\ req.lng >= 0 - 180000 /\ req.lng <= 180000) => res.status # 400
    /\ res.status = 400 => dbCalls = 0

\* C20: when no demand center is available (findOne finds none, or the
\* snapshot of the area analysis is empty) the scorer is called with a demand
\* distance of exactly 100 km and a full result is produced, without a
\* nearest demand center.
C20_FallbackDistance ==
  /\ (PointDone /\ nearest = Null) =>
       /\ res.body.result.distanceToDemand = 100 * 100
       /\ res.body.result.demandScore = 1104
       /\ res.body.nearestDemandCenter = Null
       /\ res.body.score = res.body.result.score
       /\ res.body.score \in 0..10000
  /\ (AreaDone /\ demandCenterCoords = << >>) =>
       /\ \A k \in 1..Len(sites) :
            /\ sites[k].result.distanceToDemand = 100 * 100
            /\ sites[k].result.demandScore = 1104
            /\ "nearestDemandCenter" \notin DOMAIN sites[k]
       /\ res.body.totalSitesAnalyzed = Len(sites)

\* a point has been scored with no demand center found
C20_Witness ==
  /\ PointDone
  /\ nearest = Null
  /\ dbCalls = 2
  /\ res.body.result.distanceToDemand = 100 * 100


\* C21: for every coordinate and every outcome of the random noise the
\* renewable potential is in 1600..2000, the wind speed in 4..12, the
\* infrastructure access in 1..10, and the grid distance is >= 0 and at least
\* the distance to the nearest reference grid point.
C21_GeneratorsInRange ==
  ScorerDone =>
    /\ res.body.renewablePotential \in 1600..2000
    /\ res.body.windSpeed \in (4 * 100)..(12 * 100)
    /\ res.body.infrastructureAccess \in (1 * 100)..(10 * 100)
    /\ res.body.distanceToGrid >= 0
    /\ \E m \in 1..Len(mockGridPoints) :
         res.body.distanceToGrid
           >= calculateDistance(req.lat, req.lng,
                                mockGridPoints[m][1], mockGridPoints[m][2])

\* near Delhi the infrastructure access has hit its ceiling of 10
C21_Witness ==
  /\ ScorerDone
  /\ req.lat = 28600 /\ req.lng = 77200
  /\ res.body.infrastructureAccess = 10 * 100


\* the boxes of the claim, in check order: <<latLo, latHi, lngLo, lngHi, base>>
ClaimedBoxes ==
  << << 28000, 29000, 76500, 77500, 1850 >>,
     << 20000, 24500, 68000, 74500, 1900 >>,
     << 24000, 30000, 69000, 78000, 1950 >>,
     << 27500, 30500, 74500, 77500, 1870 >> >>

Matching(lat, lng) ==
  { k \in 1..Len(ClaimedBoxes) :
      /\ lat >= ClaimedBoxes[k][1] /\ lat <= ClaimedBoxes[k][2]
      /\ lng >= ClaimedBoxes[k][3] /\ lng <= ClaimedBoxes[k][4] }

\* the base of the last matching box, 1750 when there is none
ClaimedBase(lat, lng) ==
  IF Matching(lat, lng) = {} THEN 1750
  ELSE ClaimedBoxes[CHOOSE k \in Matching(lat, lng) :
                      \A m \in Matching(lat, lng) : m <= k][5]

\* C25: the base of the renewable potential is that of the last matching box
\* in check order, 1750 when none matches; bases never accumulate.  With the
\* noise at its lowest (-75) the potential stays below its ceiling, so it is
\* the base - 75 + 30 * cos(lat), rounded.
C25_LastMatchingBoxWins ==
  (ScorerDone /\ req.us[1] = 0) =>
    res.body.renewablePotential
      = RoundDiv(ClaimedBase(req.lat, req.lng) * E3 - 75 * E3
                 + (Cos(toRad(Abs(req.lat))) * 30) \div E3, E3)

\* a point inside the Delhi, Rajasthan and Haryana boxes has been given the
\* Haryana base: 1870 - 75 + 26
C25_Witness ==
  /\ ScorerDone
  /\ req.lat = 28600 /\ req.lng = 77200
  /\ req.us[1] = 0
  /\ Cardinality(Matching(req.lat, req.lng)) = 3
  /\ res.body.renewablePotential = 1821


DistanceDone == pc = "done" /\ req.kind = "distance"

\* C23: for all coordinates a and b, distance(a, a) = 0, distance(a, b) =
\* distance(b, a) and distance(a, b) >= 0.  (NaN is not equal to itself and
\* not >= 0.)
C23_DistanceIsSymmetricNonNegative ==
  DistanceDone =>
    /\ res.body.aa = 0
    /\ res.body.ab # NaN /\ res.body.ba # NaN
    /\ res.body.ab = res.body.ba
    /\ res.body.ab >= 0

\* the three properties for every pair whose distance is a number
C23_HoldsWhenNumber ==
  (DistanceDone /\ res.body.ab # NaN) =>
    /\ res.body.aa = 0
    /\ res.body.ab = res.body.ba
    /\ res.body.ab >= 0
    /\ (req.a = req.b => res.body.ab = 0)


ScanDone == pc = "done" /\ req.kind = "scan"

\* the distances from the scanned cell to the centers of the snapshot
ScanDistances ==
  [k \in 1..Len(req.coords) |->
     calculateDistance(req.lat, req.lng, req.coords[k].lat, req.coords[k].lng)]

\* the true minimum distance to the snapshot, the fallback standing in for an
\* empty snapshot
TrueMinimum(d) ==
  IF Len(d) = 0 THEN FallbackDistance
  ELSE CHOOSE x \in {d[k] : k \in 1..Len(d)} : \A k \in 1..Len(d) : x <= d[k]

\* the centers closer than 5 km
Close(d) == {k \in 1..Len(d) : d[k] < EarlyExit}

\* C24: the demand scan stops at the first center in snapshot order that is
\* closer than 5 km: the distance handed on is that center's, which is never
\* below the true minimum and can be above it; without such a center it is
\* the minimum of 100 km and all distances.
C24_StopsAtFirstCloseCenter ==
  ScanDone =>
    /\ res.body >= Min2(FallbackDistance, TrueMinimum(ScanDistances))
    /\ IF Close(ScanDistances) = {}
       THEN res.body = Min2(FallbackDistance, TrueMinimum(ScanDistances))
       ELSE \E k \in Close(ScanDistances) :
              /\ \A m \in Close(ScanDistances) : k <= m
              /\ res.body = ScanDistances[k]

\* Ahmedabad came before Sanand in the snapshot and the cell was given
\* Ahmedabad's distance although Sanand is closer
C24_Witness ==
  /\ ScanDone
  /\ req.coords = << Ahmedabad, Sanand >>
  /\ res.body = ScanDistances[1]
  /\ ScanDistances[2] < ScanDistances[1]
  /\ res.body > TrueMinimum(ScanDistances)

\* C28: the error of the early exit is bounded: a distance of 5 km or more
\* handed to the scorer is min(100, true minimum); one below 5 km exceeds
\* the true minimum by less than 5 km.
C28_EarlyExitErrorBounded ==
  ScanDone =>
    /\ res.body >= EarlyExit
         => res.body = Min2(FallbackDistance, TrueMinimum(ScanDistances))
    /\ res.body < EarlyExit
         => /\ res.body >= TrueMinimum(ScanDistances)
            /\ res.body - TrueMinimum(ScanDistances) < EarlyExit

\* a cell some 55 km from Sanand, scanned after the slightly farther
\* Ahmedabad, was given the distance to Sanand
C28_Witness ==
  /\ ScanDone
  /\ req.coords = << Ahmedabad, Sanand, Jaipur >>
  /\ res.body >= EarlyExit /\ res.body < FallbackDistance
  /\ ScanDistances[1] < FallbackDistance
  /\ res.body = ScanDistances[2]
  /\ res.body < ScanDistances[1]

\* C29: the demand distance handed to the scorer never exceeds 100 km; when
\* every center of a non-empty snapshot is farther than 100 km they are all
\* ignored and the 100 km fallback is used.
C29_NeverAboveFallback ==
  ScanDone =>
    /\ res.body <= FallbackDistance
    /\ (\A k \in 1..Len(req.coords) : ScanDistances[k] > FallbackDistance)
         => res.body = FallbackDistance

\* a cell with three centers in its snapshot, all beyond 100 km, got 100 km
C29_Witness ==
  /\ ScanDone
  /\ Len(req.coords) = MaxSnapshot
  /\ \A k \in 1..Len(req.coords) : ScanDistances[k] > FallbackDistance
  /\ res.body = FallbackDistance


\* the number of analyzed cells whose score lies in [lo, hi)
CellsIn(lo, hi) ==
  Cardinality({k \in 1..Len(sites) : sites[k].score >= lo /\ sites[k].score < hi})

\* the part of C26 that does not involve bestSite
StatsConsistent(stats) ==
  /\ stats.sitesAnalyzed = Len(sites)
  /\ stats.excellentSites = CellsIn(80 * 100, E6)
  /\ stats.goodSites = CellsIn(60 * 100, 80 * 100)
  /\ stats.fairSites = CellsIn(40 * 100, 60 * 100)
  /\ stats.poorSites = CellsIn(0 - E6, 40 * 100)
  /\ stats.excellentSites + stats.goodSites + stats.fairSites + stats.poorSites
       = stats.sitesAnalyzed
  /\ stats.suitableSites = stats.excellentSites + stats.goodSites
  /\ stats.minScore <= stats.avgScore /\ stats.avgScore <= stats.maxScore

\* C26 as stated: the four band counts partition the analyzed cells,
\* suitableSites is the first two bands together, maxScore equals
\* bestSite.score, and minScore <= avgScore <= maxScore.
C26_StatsConsistentWithBestSite ==
  AreaDone =>
    /\ StatsConsistent(res.body.areaStats)
    /\ res.body.bestSite # Null
    /\ res.body.areaStats.maxScore = res.body.bestSite.score

\* C26 (amended): the band counts partition the analyzed cells, suitableSites
\* is the first two bands together and minScore <= avgScore <= maxScore;
\* maxScore equals bestSite.score when a cell was analyzed, and when none
\* was bestSite is null and maxScore, avgScore and minScore are 0.
C26_StatsConsistent ==
  AreaDone =>
    /\ StatsConsistent(res.body.areaStats)
    /\ IF Len(sites) > 0
       THEN /\ res.body.bestSite # Null
            /\ res.body.areaStats.maxScore = res.body.bestSite.score
       ELSE /\ res.body.bestSite = Null
            /\ res.body.areaStats.maxScore = 0
            /\ res.body.areaStats.avgScore = 0
            /\ res.body.areaStats.minScore = 0

\* an area whose cells fall in more than one band has been summarised
C26_Witness ==
  /\ AreaDone
  /\ Len(sites) > 1
  /\ res.body.areaStats.suitableSites > 0
  /\ res.body.areaStats.suitableSites < res.body.areaStats.sitesAnalyzed
  /\ res.body.areaStats.minScore < res.body.areaStats.avgScore
  /\ res.body.areaStats.avgScore < res.body.areaStats.maxScore


\* the regulatory tier that stands for each band of the suitability scale
TierOfBand ==
  [ b \in {"Excellent", "Good", "Fair", "Poor", "Very Poor"} |->
      CASE b = "Excellent" -> "Highly Favorable"
        [] b = "Good"      -> "Favorable"
        [] b = "Fair"      -> "Moderate"
        [] b = "Poor"      -> "Challenging"
        [] b = "Very Poor" -> "Unfavorable" ]

\* C27: for a non-empty zone list the tier follows the thresholds of the
\* suitability interpretation applied to overallScore (>= 80 'Highly
\* Favorable', >= 60 'Favorable', >= 40 'Moderate', >= 20 'Challenging',
\* else 'Unfavorable'); the tier is 'Unknown' iff the zone list is empty.
C27_TierFollowsFiveBands ==
  OverlayDone =>
    /\ (res.body.level = "Unknown") <=> (regulatoryZones = << >>)
    /\ regulatoryZones # << >> =>
         /\ res.body.level = TierOfBand[getScoreInterpretation(res.body.overallScore * 100)]
         /\ (res.body.level = "Highly Favorable") <=> (res.body.overallScore >= 80)
         /\ (res.body.level = "Favorable") <=> (res.body.overallScore \in 60..79)
         /\ (res.body.level = "Moderate") <=> (res.body.overallScore \in 40..59)
         /\ (res.body.level = "Challenging") <=> (res.body.overallScore \in 20..39)
         /\ (res.body.level = "Unfavorable") <=> (res.body.overallScore < 20)

\* three zones whose mean rounds to exactly 60 have been rated 'Favorable'
C27_Witness ==
  /\ OverlayDone
  /\ Len(regulatoryZones) > 2
  /\ res.body.overallScore = 60
  /\ res.body.level = "Favorable"


\* the request is rejected by the handler's validation
ValidationFails ==
  IF req.kind = "area"
  THEN ~req.hasBounds \/ ~req.hasPolygon \/ InvalidBounds(req)
  ELSE \/ Falsy(req.hasLat, req.lat) \/ Falsy(req.hasLng, req.lng)
       \/ req.lat < 0 - 90000 \/ req.lat > 90000
       \/ req.lng < 0 - 180000 \/ req.lng > 180000

\* the fields of a complete result
ResultFields ==
  IF req.kind = "area"
  THEN {"bestSite", "sites", "areaStats", "gridResolution", "totalSitesAnalyzed",
        "analysisType"}
  ELSE {"result", "score", "location", "nearestDemandCenter", "regulatoryAnalysis",
        "interpretation"}

\* the response that ended the request is one of the three of C30
ProperResponse ==
  /\ res.status \in {400, 200, 500}
  /\ (res.status = 400) <=> ValidationFails
  /\ res.status = 400 => (dbCalls = 0 /\ DOMAIN res.body = {"error"})
  /\ res.status = 500 => (dbCalls >= 1 /\ DOMAIN res.body = {"error"})
  /\ res.status = 200 => DOMAIN res.body = ResultFields

\* C30: every calculateSuitability and analyzeArea request ends with exactly
\* one response: a 400 when validation fails, a 200 carrying the complete
\* result, or a 500 when a lookup throws; a response is never sent twice,
\* never omitted, and an error carries no part of a result.
C30_ExactlyOneResponse ==
  /\ [](sent <= 1)
  /\ []((sent = 1) <=> (pc = "done"))
  /\ [](pc = "done" => ProperResponse)
  /\ [](sent = 0 => res.status = 0)
  /\ <>(pc = "done")

\* the second lookup of a calculateSuitability request threw and the request
\* was answered 500, once
C30_Witness ==
  /\ pc = "done"
  /\ req.kind = "point"
  /\ dbCalls = 2
  /\ res.status = 500
  /\ sent = 1


\* what request p returns when it runs alone with the collaborator data it
\* was given and the random draws it made: the response of the handler of
\* the single-request specification
AloneArea(p) ==
  IF ~req[p].hasBounds \/ ~req[p].hasPolygon
  THEN [status |-> 400, body |-> [error |-> "Missing required parameters"]]
  ELSE IF InvalidBounds(req[p])
  THEN [status |-> 400, body |-> [error |-> "Invalid bounds"]]
  ELSE IF res[p].status = 500
  THEN [status |-> 500, body |-> [error |-> "Failed to analyze area"]]
  ELSE CHOOSE alone \in
         { [status |-> 200, body |-> AreaResult(sorted, req[p])] :
             sorted \in { SortSites(pushed) :
                            pushed \in { GridLoop(req[p], demandCenterCoords[p], 0, 0,
                                                  draws[p].from, << >>) } } } : TRUE

AlonePoint(p) ==
  IF Falsy(req[p].hasLat, req[p].lat) \/ Falsy(req[p].hasLng, req[p].lng)
  THEN [status |-> 400, body |-> [error |-> "Missing required parameters"]]
  ELSE IF req[p].lat < 0 - 90000 \/ req[p].lat > 90000
          \/ req[p].lng < 0 - 180000 \/ req[p].lng > 180000
  THEN [status |-> 400, body |-> [error |-> "Invalid coordinates"]]
  ELSE IF res[p].status = 500
  THEN [status |-> 500, body |-> [error |-> "Failed to calculate suitability score"]]
  ELSE [status |-> 200,
        body |-> SuitabilityResult(req[p], nearest[p], regulatoryZones[p],
                                   FourDraws(draws[p].from))]

Alone(p) == IF req[p].kind = "area" THEN AloneArea(p) ELSE AlonePoint(p)

\* C22: two requests that interleave at their await points share no mutable
\* state: each returns exactly what it would return when run alone with the
\* same collaborator data and the same random draws, and is answered once.
C22_InterleavingChangesNothing ==
  \A p \in Requests :
    pc[p] = "done" => (res[p] = Alone(p) /\ sent[p] = 1)

\* two analyzeArea requests were both waiting for their snapshot when the
\* first of them ran its grid loops, and both have been answered
C22_Witness ==
  /\ \A p \in Requests : pc[p] = "done" /\ req[p].kind = "area" /\ res[p].status = 200
  /\ draws[1].during[2] = "find"
  /\ draws[2].during[1] = "done"
  /\ draws[1].from # draws[2].from
  /\ Len(sites[1]) > 0 /\ Len(sites[2]) > 1

=============================================================================
